---------------------------- MODULE Spec2Model ----------------------------
(***************************************************************************)
(* Payment gateway integration layer: the PhonePe OAuth token cache and    *)
(* its callers (src/unnamed/part_000 lines 1-312), the Razorpay adapter    *)
(* (src/unnamed/part_000 lines 314-518), the salt-based PhonePe adapter    *)
(* (src/backend/README.md lines 1031-1303) and the webhook routes          *)
(* (src/backend/routes/webhooks.js).                                       *)
(***************************************************************************)
EXTENDS Integers, Sequences, FiniteSets, TLC

(***************************************************************************)
(* JavaScript values.  Every value is a record tagged with its type, so    *)
(* that undefined, null, strings, numbers, booleans and objects can sit in *)
(* the same field.  An object keeps its properties as a sequence of        *)
(* <<key, value>> pairs (insertion order, as in JavaScript).  Thrown(m) is *)
(* the outcome of an evaluation that threw an error with message m.        *)
(***************************************************************************)
U == [t |-> "undefined"]

N == [t |-> "null"]

NaN == [t |-> "NaN"]

S(s) == [t |-> "string", v |-> s]

Num(n) == [t |-> "number", v |-> n]

B(b) == [t |-> "boolean", v |-> b]

O(props) == [t |-> "object", v |-> props]

Thrown(m) == [t |-> "thrown", message |-> m]

IsThrown(x) == x.t = "thrown"

Nullish(x) == x.t \in {"undefined", "null"}

\* ToBoolean: what `!x`, `x && ...`, `x ? a : b` test.
Truthy(x) ==
  CASE x.t = "undefined" -> FALSE
    [] x.t = "null" -> FALSE
    [] x.t = "NaN" -> FALSE
    [] x.t = "string" -> x.v # ""
    [] x.t = "number" -> x.v # 0
    [] x.t = "boolean" -> x.v
    [] OTHER -> TRUE

HasKey(x, k) == x.t = "object" /\ \E i \in 1..Len(x.v) : x.v[i][1] = k

\* x.k : a TypeError on undefined and null, undefined for a missing property
\* (and for the own data properties of a primitive).
Get(x, k) ==
  IF IsThrown(x) THEN x
  ELSE IF Nullish(x) THEN Thrown("TypeError: Cannot read properties of " \o x.t)
  ELSE IF HasKey(x, k)
       THEN x.v[CHOOSE i \in 1..Len(x.v) : x.v[i][1] = k][2]
       ELSE U

\* x?.k
OptGet(x, k) == IF Nullish(x) THEN U ELSE Get(x, k)

\* The first thrown value among xs, U when none threw: the order in which a
\* statement evaluates its sub-expressions.
RECURSIVE FirstThrown(_)
FirstThrown(xs) ==
  IF xs = <<>> THEN U
  ELSE IF IsThrown(Head(xs)) THEN Head(xs)
  ELSE FirstThrown(Tail(xs))

\* String(x): what `${x}` and x + "..." put for x.
ToStr(x) ==
  CASE x.t = "string" -> x.v
    [] x.t = "number" -> ToString(x.v)
    [] x.t = "boolean" -> (IF x.v THEN "true" ELSE "false")
    [] x.t = "object" -> "[object Object]"
    [] OTHER -> x.t

(***************************************************************************)
(* The clock (Date.now(), in milliseconds) and the bounds of the model.    *)
(***************************************************************************)
TickMs == 30000

MaxNow == 90000

SafetyMarginSec == 60

MsPerSec == 1000

Callers == {"c1", "c2"}

Ops == {"createPhonePeOrder", "checkPhonePeTransactionStatus", "refundPhonePePayment"}

\* access_token values the identity endpoint may return; U: no access_token.
AccessTokens == {S("tokA"), S("tokB")}

\* expires_in values (seconds) the identity endpoint may report; U: missing.
ExpiresInValues == {Num(30), Num(60), Num(61), Num(120), U}

VARIABLES
  tokenCache,    \* part_000:15  { accessToken, expiresAt }
  now,           \* Date.now()
  credsSet,      \* part_000:10-11  PHONEPE_CLIENT_ID and PHONEPE_CLIENT_SECRET are set
  keySecretSet,  \* part_000:388, 441  RAZORPAY_KEY_SECRET is set
  calls,         \* one adapter operation per caller: its position and what it did
  stored,        \* the fetch response the cache was last written from
  req,           \* the webhook request being handled
  res,           \* what the handler returned or threw
  reads,         \* the properties of the body the handler read
  http,          \* the response the webhook route sent
  log            \* the log entries the call in req wrote, in order

tokenVars == <<tokenCache, now, credsSet, keySecretSet, calls, stored>>

webhookVars == <<req, res, reads, http, log>>

vars ==
  <<tokenCache, now, credsSet, keySecretSet, calls, stored, req, res, reads, http,
    log>>

EmptyCache == [accessToken |-> N, expiresAt |-> N]

\* x > n for a JavaScript value x and a number n (ToNumber(null) = 0, any
\* comparison with NaN is false).
JsGreater(x, n) ==
  CASE x.t = "number" -> x.v > n
    [] x.t = "null" -> 0 > n
    [] OTHER -> FALSE

\* The test without the comparison of expiresAt.
CacheValidAlways(cache, t) == Truthy(cache.accessToken)

\* The test that never finds a token.
CacheValidNever(cache, t) == FALSE

\* part_000:29  tokenCache.accessToken && tokenCache.expiresAt > Date.now()
CacheValid(cache, t) ==
  Truthy(cache.accessToken) /\ JsGreater(cache.expiresAt, t)

\* The expiry without the safety margin.
ExpiryTimeNoMargin(expires_in) ==
  IF expires_in.t = "number" THEN Num(expires_in.v * MsPerSec) ELSE NaN

\* part_000:66  (expires_in - 60) * 1000   (undefined - 60 is NaN)
ExpiryTime(expires_in) ==
  IF expires_in.t = "number"
  THEN Num((expires_in.v - SafetyMarginSec) * MsPerSec)
  ELSE NaN

\* part_000:69  Date.now() + expiryTime
JsAdd(n, x) == IF x.t = "number" THEN Num(n + x.v) ELSE NaN

IdleCall ==
  [pc |-> "idle", op |-> "none", amount |-> 0, txn |-> U, refundId |-> U,
   tok |-> N,
   fetches |-> 0, cleared |-> FALSE, apiCalls |-> 0, authorization |-> U,
   sent |-> U, payload |-> U, answer |-> U, err |-> "", result |-> U]

(***************************************************************************)
(* Amounts.  An amount of rupees is counted in thousandths, so that 19.999 *)
(* is 19999; amount * 100 is then a tenth of that count.                   *)
(***************************************************************************)
\* The amounts of the model: 0, 0.004, 0.005, 0.01, 0.125, 0.145, 1, 1.005,
\* 2.675, 19.999, 499, 499.994.
Amounts == {0, 4, 5, 10, 125, 145, 1000, 1005, 2675, 19999, 499000, 499994}

\* The amount of the calls whose amount does not matter.
SomeAmount == 499000

\* amount * 100 is a double.  When the exact product is a whole number and
\* a half, the double is that number exactly (0.005, 0.125, 2.675) or the
\* double just below it: 0.145 * 100 is 14.499999999999998 and 1.005 * 100
\* is 100.49999999999999 in IEEE-754 arithmetic.
ProductBelowHalf(amount) == amount \in {145, 1005}

\* The amount with its fraction of a paisa cut off.
MathFloorTimes100(amount) == amount \div 10

\* part_000:108, 210, 338  README.md:1081, 1262  Math.round(amount * 100):
\* the nearest integer, a half going up.
MathRoundTimes100(amount) ==
  IF amount % 10 = 5 /\ ProductBelowHalf(amount)
  THEN amount \div 10
  ELSE (amount + 5) \div 10

\* The operations that put an amount in their request.
AmountOps ==
  {"createPhonePeOrder", "refundPhonePePayment", "createRazorpayOrder",
   "createPhonePeOrderSalt", "refundPhonePePaymentSalt"}

\* The operations that call their endpoint without a token: part_000:331-373
\* createRazorpayOrder, 417-428 getRazorpayPaymentDetails, and of the
\* salt-based adapter README.md:1068-1137 createPhonePeOrder, 1144-1185
\* checkPhonePeTransactionStatus, 1253-1296 refundPhonePePayment.
DirectOps ==
  {"createRazorpayOrder", "getRazorpayPaymentDetails", "createPhonePeOrderSalt",
   "checkPhonePeTransactionStatusSalt", "refundPhonePePaymentSalt"}

\* The operations that go through the Razorpay client.
RazorpayOps == {"createRazorpayOrder", "getRazorpayPaymentDetails"}

\* The operations whose catch block throws a new { message, error } object;
\* the others rethrow what they caught.
WrappingOps ==
  {"createPhonePeOrder", "checkPhonePeTransactionStatus", "refundPhonePePayment",
   "createRazorpayOrder", "createPhonePeOrderSalt"}

\* part_000:144, 189, 249, 369  README.md:1132
FailMessage(op) ==
  CASE op = "createPhonePeOrder" -> "Failed to create PhonePe order"
    [] op = "checkPhonePeTransactionStatus" ->
         "Failed to check PhonePe transaction status"
    [] op = "refundPhonePePayment" -> "Failed to refund PhonePe payment"
    [] op = "createRazorpayOrder" -> "Failed to create Razorpay order"
    [] op = "createPhonePeOrderSalt" -> "Failed to create PhonePe order"
    [] OTHER -> ""

\* README.md:1037
PHONEPE_MERCHANT_ID == "M1"

\* The transactionId argument of the status and refund operations.
TransactionIdParam == S("TXN_M1_1")

\* README.md:1072  `TXN_${PHONEPE_MERCHANT_ID}_${Date.now()}`
NewTransactionId(t) == S("TXN_" \o PHONEPE_MERCHANT_ID \o "_" \o ToString(t))

\* README.md:1088  process.env.FRONTEND_URL
FRONTEND_URL == "https://shop"

\* README.md:1090  process.env.BACKEND_URL || 'https://your-backend-url.com'
BACKEND_URL == "https://your-backend-url.com"

\* The customer of the calls: params.customer.
Customer == [email |-> "a@b.in", phone |-> "9000000001"]

Alphanumerics == "abcdefghijklmnopqrstuvwxyzABCDEFGHIJKLMNOPQRSTUVWXYZ0123456789"

RECURSIVE OnlyAlphanumerics(_)
\* README.md:1086  .replace(/[^a-zA-Z0-9]/g, '')
OnlyAlphanumerics(s) ==
  IF s = "" THEN ""
  ELSE (IF \E i \in 1..Len(Alphanumerics) :
              SubSeq(Alphanumerics, i, i) = SubSeq(s, 1, 1)
        THEN SubSeq(s, 1, 1) ELSE "")
       \o OnlyAlphanumerics(SubSeq(s, 2, Len(s)))

\* part_000:213  README.md:1262  `REFUND_${Date.now()}`
NewRefundId(t) == S("REFUND_" \o ToString(t))

\* README.md:1083-1095  payloadData, the object that is encoded and signed.
PayloadData(transactionId, amount) ==
  O(<< <<"merchantId", S(PHONEPE_MERCHANT_ID)>>,
       <<"merchantTransactionId", transactionId>>,
       <<"merchantUserId", S(OnlyAlphanumerics(Customer.email))>>,
       <<"amount", Num(MathRoundTimes100(amount))>>,
       <<"redirectUrl",
         S(FRONTEND_URL \o "/payment-status?transactionId=" \o transactionId.v)>>,
       <<"redirectMode", S("GET")>>,
       <<"callbackUrl", S(BACKEND_URL \o "/api/webhook/phonepe")>>,
       <<"mobileNumber", S(Customer.phone)>>,
       <<"paymentInstrument", O(<< <<"type", S("PAY_PAGE")>> >>)>> >>)

\* What the endpoint of an axios call answers: response.data of a 2xx
\* response (a success envelope, a failure envelope), or the error axios
\* rejects with (a non-2xx status with its body, no response at all).
AxiosOutcomes ==
  { [ok |-> TRUE,
     value |-> O(<< <<"success", B(TRUE)>>, <<"code", S("PAYMENT_INITIATED")>>,
                    <<"data", O(<< <<"state", S("PENDING")>>,
                                   <<"refundId", S("REFUND_1")>>,
                                   <<"instrumentResponse",
                                     O(<< <<"redirectUrl", S("https://pay/1")>> >>)>> >>)>> >>)],
    [ok |-> TRUE,
     value |-> O(<< <<"success", B(FALSE)>>, <<"code", S("PAYMENT_ERROR")>>,
                    <<"message", S("Payment declined")>> >>)],
    [ok |-> FALSE,
     value |-> O(<< <<"message", S("Request failed with status code 400")>>,
                    <<"response",
                      O(<< <<"data", O(<< <<"success", B(FALSE)>>,
                                          <<"code", S("BAD_REQUEST")>>,
                                          <<"message", S("Invalid amount")>> >>)>> >>)>> >>)],
    [ok |-> FALSE,
     value |-> O(<< <<"message", S("connect ECONNREFUSED")>> >>)] }

\* What the Razorpay client answers: the entity, the error object the
\* client rejects with for an API error ({ statusCode, error }, which has
\* no message), or a network error.
RazorpayOutcomes ==
  { [ok |-> TRUE,
     value |-> O(<< <<"id", S("order_1")>>, <<"amount", Num(49900)>>,
                    <<"currency", S("INR")>>, <<"status", S("created")>>,
                    <<"created_at", Num(1700)>> >>)],
    [ok |-> FALSE,
     value |-> O(<< <<"statusCode", Num(400)>>,
                    <<"error", O(<< <<"code", S("BAD_REQUEST_ERROR")>>,
                                    <<"description", S("Order amount less than minimum")>> >>)>> >>)],
    [ok |-> FALSE,
     value |-> O(<< <<"message", S("connect ECONNREFUSED")>> >>)] }

\* Further 2xx bodies of the pay endpoint: one whose success is a text, one
\* without a success field, and no body at all.
PayOutcomes ==
  { [ok |-> TRUE,
     value |-> O(<< <<"success", S("true")>>,
                    <<"data", O(<< <<"instrumentResponse",
                                     O(<< <<"redirectUrl", S("https://pay/2")>> >>)>> >>)>> >>)],
    [ok |-> TRUE, value |-> O(<< <<"code", S("INTERNAL_SERVER_ERROR")>> >>)],
    [ok |-> TRUE, value |-> U] }

OutcomesOf(op) ==
  IF op \in RazorpayOps THEN RazorpayOutcomes
  ELSE IF op = "createPhonePeOrderSalt" THEN AxiosOutcomes \cup PayOutcomes
  ELSE AxiosOutcomes

\* The outcomes tried where only success or failure matters.
SomeOutcomes ==
  {o \in AxiosOutcomes :
     IF o.ok THEN Get(o.value, "success") = B(TRUE)
     ELSE ~HasKey(o.value, "response")}

\* The catch block throwing its own message alone.
OpThrowsMessageOnly(op, error) ==
  IF op \in WrappingOps
  THEN O(<< <<"message", S(FailMessage(op))>>, <<"error", U>> >>)
  ELSE error

\* part_000:143-146, 188-191, 248-251, 368-371  README.md:1131-1134: the
\* { message, error: error.message } the wrapping operations throw;
\* part_000:426  README.md:1183, 1294: throw error.
OpThrows(op, error) ==
  IF op \in WrappingOps
  THEN O(<< <<"message", S(FailMessage(op))>>, <<"error", Get(error, "message")>> >>)
  ELSE error

\* createPhonePeOrder building the transaction id of its result anew.
OpReturnsNewId(call, data) ==
  IF call.op = "createPhonePeOrderSalt"
  THEN O(<< <<"transactionId", NewTransactionId(now)>>,
            <<"merchantId", S(PHONEPE_MERCHANT_ID)>>,
            <<"redirectUrl",
              OptGet(OptGet(OptGet(data, "data"), "instrumentResponse"), "redirectUrl")>>,
            <<"paymentUrl",
              OptGet(OptGet(OptGet(data, "data"), "instrumentResponse"), "redirectUrl")>>,
            <<"status", IF Truthy(OptGet(data, "success"))
                        THEN S("INITIATED") ELSE S("FAILED")>> >>)
  ELSE data

\* What an operation returns from the data its call resolved with.
OpReturns(call, data) ==
  CASE call.op = "createRazorpayOrder" ->
         \* part_000:356-365
         O(<< <<"orderId", Get(data, "id")>>, <<"amount", Get(data, "amount")>>,
              <<"currency", Get(data, "currency")>>,
              <<"status", Get(data, "status")>>,
              <<"createdAt",
                S("Date(" \o ToStr(Get(data, "created_at")) \o " * 1000).toISOString()")>>,
              <<"razorpayKey", S("rzp_key")>> >>)
    [] call.op = "createPhonePeOrderSalt" ->
         \* README.md:1120-1126
         O(<< <<"transactionId", call.txn>>,
              <<"merchantId", S(PHONEPE_MERCHANT_ID)>>,
              <<"redirectUrl",
                OptGet(OptGet(OptGet(data, "data"), "instrumentResponse"), "redirectUrl")>>,
              <<"paymentUrl",
                OptGet(OptGet(OptGet(data, "data"), "instrumentResponse"), "redirectUrl")>>,
              <<"status", IF Truthy(OptGet(data, "success"))
                          THEN S("INITIATED") ELSE S("FAILED")>> >>)
    [] call.op = "checkPhonePeTransactionStatusSalt" ->
         \* README.md:1170-1176
         O(<< <<"transactionId", TransactionIdParam>>,
              <<"status", OptGet(OptGet(data, "data"), "state")>>,
              <<"responseCode", OptGet(OptGet(data, "data"), "responseCode")>>,
              <<"amount", OptGet(OptGet(data, "data"), "amount")>>,
              <<"success", OptGet(data, "success")>> >>)
    [] call.op = "refundPhonePePaymentSalt" ->
         \* README.md:1285-1289
         O(<< <<"refundId", OptGet(OptGet(data, "data"), "refundId")>>,
              <<"status", IF Truthy(OptGet(data, "success"))
                          THEN S("INITIATED") ELSE S("FAILED")>>,
              <<"originalTransactionId", TransactionIdParam>> >>)
    [] OTHER ->
         \* part_000:137, 181, 241, 420  return response.data / payment
         data

\* The amount field of the request an operation sends.
SentAmount(op, amount) ==
  IF op \in AmountOps THEN Num(MathRoundTimes100(amount)) ELSE U

\* stale: the fetch of the stored response was in flight during a clear.
NoResponse == [access_token |-> N, expires_in |-> U, at |-> 0, stale |-> FALSE]

\* part_000:82-85 what getAccessToken throws, whatever failed inside it.
AuthFailed == "Failed to authenticate with PhonePe"

(***************************************************************************)
(* getAccessToken and the three operations that await it.  A call runs    *)
(* synchronously up to its first await, so each action below is the code  *)
(* between two awaits.                                                     *)
(***************************************************************************)

\* The operation fetching a token although the credentials are missing.
StartCallWithoutCredentials(c, op, amount) ==
  /\ calls[c].pc = "idle"
  /\ IF CacheValid(tokenCache, now)
     THEN calls' = [calls EXCEPT ![c] =
            [IdleCall EXCEPT !.pc = "gotToken", !.op = op, !.amount = amount,
                             !.tok = tokenCache.accessToken]]
     ELSE calls' = [calls EXCEPT ![c] =
            [IdleCall EXCEPT !.pc = "awaitToken", !.op = op, !.amount = amount,
                             !.fetches = 1]]
  /\ UNCHANGED <<tokenCache, now, credsSet, keySecretSet, stored, webhookVars>>

\* part_000:95-105, 156-161, 200-207 then 26-57: the operation starts and
\* getAccessToken runs up to `await axios.post(...)`, or returns the cached
\* token, or throws because the credentials are missing.
StartCall(c, op, amount) ==
  /\ calls[c].pc = "idle"
  /\ IF CacheValid(tokenCache, now)
     THEN calls' = [calls EXCEPT ![c] =
            [IdleCall EXCEPT !.pc = "gotToken", !.op = op, !.amount = amount,
                             !.tok = tokenCache.accessToken]]
     ELSE IF ~credsSet
     THEN calls' = [calls EXCEPT ![c] =
            [IdleCall EXCEPT !.pc = "failed", !.op = op, !.amount = amount,
                             !.err = AuthFailed,
                             !.result = OpThrows(op, O(<< <<"message", S(AuthFailed)>> >>))]]
     ELSE calls' = [calls EXCEPT ![c] =
            [IdleCall EXCEPT !.pc = "awaitToken", !.op = op, !.amount = amount,
                             !.fetches = 1]]
  /\ UNCHANGED <<tokenCache, now, credsSet, keySecretSet, stored, webhookVars>>

\* The fetched token stored beside the expiry the cache already holds.
TokenResponseKeepingExpiry(c, access_token, expires_in) ==
  /\ calls[c].pc = "awaitToken"
  /\ IF ~Truthy(access_token)
     THEN /\ calls' = [calls EXCEPT
                 ![c].pc = "failed", ![c].err = AuthFailed, ![c].cleared = FALSE,
                 ![c].result = OpThrows(calls[c].op, O(<< <<"message", S(AuthFailed)>> >>))]
          /\ UNCHANGED <<tokenCache, stored>>
     ELSE /\ tokenCache' = [accessToken |-> access_token,
                            expiresAt |-> IF tokenCache.expiresAt = N
                                          THEN JsAdd(now, ExpiryTime(expires_in))
                                          ELSE tokenCache.expiresAt]
          /\ stored' = [access_token |-> access_token,
                        expires_in |-> expires_in, at |-> now,
                        stale |-> calls[c].cleared]
          /\ calls' = [calls EXCEPT ![c].pc = "gotToken", ![c].tok = access_token,
                                    ![c].cleared = FALSE]
  /\ UNCHANGED <<now, credsSet, keySecretSet, webhookVars>>

\* part_000:59-76: the identity endpoint answered 2xx with
\* { access_token, expires_in }.
TokenResponse(c, access_token, expires_in) ==
  /\ calls[c].pc = "awaitToken"
  /\ IF ~Truthy(access_token)
     THEN /\ calls' = [calls EXCEPT
                 ![c].pc = "failed", ![c].err = AuthFailed, ![c].cleared = FALSE,
                 ![c].result = OpThrows(calls[c].op, O(<< <<"message", S(AuthFailed)>> >>))]
          /\ UNCHANGED <<tokenCache, stored>>
     ELSE /\ tokenCache' = [accessToken |-> access_token,
                            expiresAt |-> JsAdd(now, ExpiryTime(expires_in))]
          /\ stored' = [access_token |-> access_token,
                        expires_in |-> expires_in, at |-> now,
                        stale |-> calls[c].cleared]
          /\ calls' = [calls EXCEPT ![c].pc = "gotToken", ![c].tok = access_token,
                                    ![c].cleared = FALSE]
  /\ UNCHANGED <<now, credsSet, keySecretSet, webhookVars>>

\* The failed fetch emptying the cache.
TokenFetchFailsClearing(c) ==
  /\ calls[c].pc = "awaitToken"
  /\ calls' = [calls EXCEPT
       ![c].pc = "failed", ![c].err = AuthFailed, ![c].cleared = FALSE,
       ![c].result = OpThrows(calls[c].op, O(<< <<"message", S(AuthFailed)>> >>))]
  /\ tokenCache' = EmptyCache
  /\ UNCHANGED <<now, credsSet, keySecretSet, stored, webhookVars>>

\* part_000:44-57, 77-86: axios.post rejected (network error, non-2xx).
TokenFetchFails(c) ==
  /\ calls[c].pc = "awaitToken"
  /\ calls' = [calls EXCEPT
       ![c].pc = "failed", ![c].err = AuthFailed, ![c].cleared = FALSE,
       ![c].result = OpThrows(calls[c].op, O(<< <<"message", S(AuthFailed)>> >>))]
  /\ UNCHANGED <<tokenCache, now, credsSet, keySecretSet, stored, webhookVars>>

\* The endpoint called with the token the cache holds at that moment.
CallUpstreamWithCachedToken(c) ==
  /\ calls[c].pc = "gotToken"
  /\ calls' = [calls EXCEPT ![c].pc = "awaitApi",
                            ![c].apiCalls = calls[c].apiCalls + 1,
                            ![c].authorization =
                               S("Bearer " \o ToStr(tokenCache.accessToken)),
                            ![c].sent = SentAmount(calls[c].op, calls[c].amount)]
  /\ UNCHANGED <<tokenCache, now, credsSet, keySecretSet, stored, webhookVars>>

\* part_000:107-129, 163-173, 209-233: the payment endpoint is called with
\* `Bearer ${accessToken}`.
CallUpstream(c) ==
  /\ calls[c].pc = "gotToken"
  /\ calls' = [calls EXCEPT ![c].pc = "awaitApi",
                            ![c].apiCalls = calls[c].apiCalls + 1,
                            ![c].authorization = S("Bearer " \o ToStr(calls[c].tok)),
                            ![c].refundId = IF calls[c].op = "refundPhonePePayment"
                                            THEN NewRefundId(now) ELSE U,
                            ![c].sent = SentAmount(calls[c].op, calls[c].amount)]
  /\ UNCHANGED <<tokenCache, now, credsSet, keySecretSet, stored, webhookVars>>

\* part_000:331-355, README.md:1068-1118, 1253-1277: the operation builds its
\* request and runs up to the await of its one call to the endpoint.
StartDirectCall(c, op, amount) ==
  /\ calls[c].pc = "idle"
  /\ calls' = [calls EXCEPT ![c] =
       [IdleCall EXCEPT !.pc = "awaitApi", !.op = op, !.amount = amount,
                        !.txn = IF op = "createPhonePeOrderSalt"
                                THEN NewTransactionId(now) ELSE U,
                        !.payload = IF op = "createPhonePeOrderSalt"
                                    THEN PayloadData(NewTransactionId(now), amount)
                                    ELSE U,
                        !.refundId = IF op = "refundPhonePePaymentSalt"
                                     THEN NewRefundId(now) ELSE U,
                        !.apiCalls = 1, !.sent = SentAmount(op, amount)]]
  /\ UNCHANGED <<tokenCache, now, credsSet, keySecretSet, stored, webhookVars>>

\* part_000:131-137, 175-181, 235-242: response.data is returned as is;
\* part_000:138-147, 182-192, 243-252: a rejected call is rethrown.
\* The operation calls its endpoint again when the call failed.
UpstreamResponseRetrying(c, outcome) ==
  /\ calls[c].pc = "awaitApi"
  /\ outcome \in OutcomesOf(calls[c].op)
  /\ IF outcome.ok
     THEN calls' = [calls EXCEPT ![c].pc = "done", ![c].answer = outcome,
                                 ![c].result = OpReturns(calls[c], outcome.value)]
     ELSE calls' = [calls EXCEPT ![c].apiCalls = calls[c].apiCalls + 1]
  /\ UNCHANGED <<tokenCache, now, credsSet, keySecretSet, stored, webhookVars>>

\* The call to the endpoint settles: the operation returns from what it
\* resolved with, or its catch block throws.
UpstreamResponse(c, outcome) ==
  /\ calls[c].pc = "awaitApi"
  /\ outcome \in OutcomesOf(calls[c].op)
  /\ IF outcome.ok
     THEN calls' = [calls EXCEPT ![c].pc = "done", ![c].answer = outcome,
                                 ![c].result = OpReturns(calls[c], outcome.value)]
     ELSE calls' = [calls EXCEPT ![c].pc = "failed", ![c].answer = outcome,
                                 ![c].err = "upstream error",
                                 ![c].result = OpThrows(calls[c].op, outcome.value)]
  /\ UNCHANGED <<tokenCache, now, credsSet, keySecretSet, stored, webhookVars>>

\* The caller has its result (or its error) and may call again.
Return(c) ==
  /\ calls[c].pc \in {"done", "failed"}
  /\ calls' = [calls EXCEPT ![c] = IdleCall]
  /\ UNCHANGED <<tokenCache, now, credsSet, keySecretSet, stored, webhookVars>>

\* part_000:298-304.  A fetch that is in flight is marked as cleared, which
\* tells the token it will store from those of the fetches started later.
ClearTokenCache ==
  /\ tokenCache' = EmptyCache
  /\ stored' = NoResponse
  /\ calls' = [c \in Callers |->
                IF calls[c].pc = "awaitToken"
                THEN [calls[c] EXCEPT !.cleared = TRUE] ELSE calls[c]]
  /\ UNCHANGED <<now, credsSet, keySecretSet, webhookVars>>

\* Time passes.
Tick ==
  /\ now + TickMs <= MaxNow
  /\ now' = now + TickMs
  /\ UNCHANGED <<tokenCache, credsSet, keySecretSet, calls, stored, webhookVars>>

(***************************************************************************)
(* Strings, JSON, base64 and digests.  Text is a TLA+ string.  A digest   *)
(* or an encoding of a text is the text wrapped in the name of the         *)
(* function: two digests are equal iff their algorithm, key and message    *)
(* are, which is what a collision-free hash gives.                         *)
(***************************************************************************)

RECURSIVE JsonText(_)
RECURSIVE JsonMembers(_, _)
\* The members of an object; a property whose value is undefined is left out.
JsonMembers(props, first) ==
  IF props = <<>> THEN ""
  ELSE IF Head(props)[2].t = "undefined" THEN JsonMembers(Tail(props), first)
  ELSE (IF first THEN "" ELSE ",") \o "\"" \o Head(props)[1] \o "\":"
       \o JsonText(Head(props)[2]) \o JsonMembers(Tail(props), FALSE)

JsonText(x) ==
  CASE x.t = "string" -> "\"" \o x.v \o "\""
    [] x.t = "number" -> ToString(x.v)
    [] x.t = "boolean" -> (IF x.v THEN "true" ELSE "false")
    [] x.t = "object" -> "{" \o JsonMembers(x.v, TRUE) \o "}"
    [] OTHER -> "null"

\* JSON.stringify(x): undefined (not a string) for undefined.
JsonStringify(x) == IF x.t = "undefined" THEN U ELSE S(JsonText(x))

\* crypto.createHmac('sha256', key).update(msg).digest('hex')
HmacSha256Hex(key, msg) == "hmac-sha256(" \o key \o "," \o msg \o ")"

\* crypto.createHash('sha256').update(msg).digest('hex')
Sha256Hex(msg) == "sha256(" \o msg \o ")"

\* Buffer.from(text).toString('base64')
Base64Encode(text) == "base64(" \o text \o ")"

IsBase64(s) ==
  /\ Len(s) >= 8
  /\ SubSeq(s, 1, 7) = "base64("
  /\ SubSeq(s, Len(s), Len(s)) = ")"

\* Buffer.from(s, 'base64').toString('utf-8') never throws on a string: what
\* is no base64 text decodes to bytes that are no JSON.
Base64Decode(s) == IF IsBase64(s) THEN SubSeq(s, 8, Len(s) - 1) ELSE "\\uFFFD"

\* s.replace(pat, rep): the first occurrence only.
Occurrences(s, pat) ==
  {i \in 1..Len(s) : i + Len(pat) - 1 <= Len(s) /\ SubSeq(s, i, i + Len(pat) - 1) = pat}

ReplaceFirst(s, pat, rep) ==
  IF Occurrences(s, pat) = {} THEN s
  ELSE LET i == CHOOSE j \in Occurrences(s, pat) :
                  \A k \in Occurrences(s, pat) : j <= k
       IN SubSeq(s, 1, i - 1) \o rep \o SubSeq(s, i + Len(pat), Len(s))

(***************************************************************************)
(* Configuration (process.env) of the handlers.                            *)
(***************************************************************************)
\* process.env.RAZORPAY_KEY_SECRET: undefined when the variable is not set.
RAZORPAY_KEY_SECRET == IF keySecretSet THEN S("s3cr3t") ELSE U

PHONEPE_SALT_KEY == "SALT1"

PHONEPE_SALT_INDEX == "1"

PHONEPE_WEBHOOK_USER == "hookuser"

PHONEPE_WEBHOOK_PASS == "hookpass"

\* An object of the given properties, those with an undefined value left
\* out: a parsed JSON body has no undefined property.
RECURSIVE Defined(_)
Defined(props) ==
  IF props = <<>> THEN <<>>
  ELSE IF Head(props)[2].t = "undefined" THEN Defined(Tail(props))
  ELSE <<Head(props)>> \o Defined(Tail(props))

Obj(props) == O(Defined(props))

(***************************************************************************)
(* Razorpay webhook handler, part_000:436-511.                             *)
(***************************************************************************)
\* part_000:441-443  createHmac throws a TypeError on a key that is undefined.
RazorpayDigest(webhookData) ==
  IF RAZORPAY_KEY_SECRET.t # "string"
  THEN Thrown("TypeError: The \"key\" argument must be of type string")
  ELSE S(HmacSha256Hex(RAZORPAY_KEY_SECRET.v, ToStr(JsonStringify(webhookData))))

\* The statuses with payment.captured reported as 'success'.
RazorpayStatusCapturedAsSuccess(event) ==
  CASE event = S("payment.authorized") -> S("success")
    [] event = S("payment.failed") -> S("failed")
    [] event = S("payment.captured") -> S("success")
    [] event = S("refund.created") -> S("refunded")
    [] OTHER -> U

\* part_000:464, 476, 488, 500: the status each case of the switch returns.
RazorpayStatus(event) ==
  CASE event = S("payment.authorized") -> S("success")
    [] event = S("payment.failed") -> S("failed")
    [] event = S("payment.captured") -> S("captured")
    [] event = S("refund.created") -> S("refunded")
    [] OTHER -> U

\* part_000:455-506 the switch on event, entered after the signature matched.
RazorpayEvent(event, payload) ==
  LET paymentId == Get(Get(Get(payload, "payment"), "entity"), "id")
      reason == Get(Get(Get(payload, "payment"), "entity"), "error_description")
      refundId == Get(Get(Get(payload, "refund"), "entity"), "id")
      refundPayment == Get(Get(Get(payload, "refund"), "entity"), "payment_id")
  IN CASE event = S("payment.authorized") ->
            IF IsThrown(paymentId) THEN paymentId
            ELSE O(<< <<"valid", B(TRUE)>>, <<"event", event>>,
                      <<"paymentId", paymentId>>, <<"status", RazorpayStatus(event)>> >>)
       [] event = S("payment.failed") ->
            IF IsThrown(paymentId) THEN paymentId
            ELSE O(<< <<"valid", B(TRUE)>>, <<"event", event>>,
                      <<"paymentId", paymentId>>, <<"status", RazorpayStatus(event)>>,
                      <<"reason", reason>> >>)
       [] event = S("payment.captured") ->
            IF IsThrown(paymentId) THEN paymentId
            ELSE O(<< <<"valid", B(TRUE)>>, <<"event", event>>,
                      <<"paymentId", paymentId>>, <<"status", RazorpayStatus(event)>> >>)
       [] event = S("refund.created") ->
            IF IsThrown(FirstThrown(<<refundId, refundPayment>>))
            THEN FirstThrown(<<refundId, refundPayment>>)
            ELSE O(<< <<"valid", B(TRUE)>>, <<"event", event>>,
                      <<"refundId", refundId>>, <<"status", RazorpayStatus(event)>> >>)
       [] OTHER ->
            O(<< <<"valid", B(TRUE)>>, <<"event", event>>,
                 <<"processed", B(FALSE)>> >>)

InvalidSignature ==
  O(<< <<"valid", B(FALSE)>>, <<"message", S("Invalid signature")>> >>)

\* The handler with the signature comparison left out.
handleRazorpayWebhookUnchecked(webhookData, webhookSignature) ==
  IF IsThrown(Get(webhookData, "event")) THEN Get(webhookData, "event")
  ELSE RazorpayEvent(Get(webhookData, "event"), Get(webhookData, "payload"))

\* part_000:436-511.  Line 438 reads webhookData.event for the log before
\* anything else; the catch block (507-510) rethrows.
handleRazorpayWebhook(webhookData, webhookSignature) ==
  IF IsThrown(Get(webhookData, "event")) THEN Get(webhookData, "event")
  ELSE IF IsThrown(RazorpayDigest(webhookData)) THEN RazorpayDigest(webhookData)
  ELSE IF RazorpayDigest(webhookData) # webhookSignature THEN InvalidSignature
  ELSE RazorpayEvent(Get(webhookData, "event"), Get(webhookData, "payload"))

\* The properties of the body the handler reads on the way to its result:
\* event at line 438, event and payload at line 453.
RazorpayFieldsRead(webhookData, webhookSignature) ==
  IF IsThrown(Get(webhookData, "event")) THEN {}
  ELSE IF RazorpayDigest(webhookData) # webhookSignature THEN {"event"}
  ELSE {"event", "payload"}

(***************************************************************************)
(* Salt-based PhonePe adapter, README.md:1031-1303.                        *)
(***************************************************************************)

\* generatePhonePeSignature that hashes the body without the salt key.
generatePhonePeSignatureUnsalted(requestBody) ==
  Sha256Hex(ToStr(requestBody)) \o "###" \o PHONEPE_SALT_INDEX

\* README.md:1046-1050  requestBody + PHONEPE_SALT_KEY, hashed, `${hash}###${index}`
generatePhonePeSignature(requestBody) ==
  Sha256Hex(ToStr(requestBody) \o PHONEPE_SALT_KEY) \o "###" \o PHONEPE_SALT_INDEX

\* README.md:1058-1061
verifyPhonePeSignature(requestBody, xVerifyHeader) ==
  S(generatePhonePeSignature(requestBody)) = xVerifyHeader

\* README.md:1197-1199
ExpectedAuth == Base64Encode(PHONEPE_WEBHOOK_USER \o ":" \o PHONEPE_WEBHOOK_PASS)

\* README.md:1201  authHeader?.replace('Basic ', '') || ''
ProvidedAuth(authHeader) ==
  IF authHeader.t = "string" THEN ReplaceFirst(authHeader.v, "Basic ", "") ELSE ""

\* The JSON texts JSON.parse is given in the model, as the values they parse
\* to: the decoded data.response of a callback.
ResponseValues ==
  { O(<< <<"merchantTransactionId", S("TXN_M1_1")>>, <<"state", S("COMPLETED")>>,
         <<"responseCode", S("SUCCESS")>>, <<"amount", Num(49900)>>,
         <<"transactionDate", S("2024-01-01")>> >>),
    O(<< <<"merchantTransactionId", S("TXN_M1_1")>>, <<"state", S("FAILED")>>,
         <<"responseCode", S("PAYMENT_ERROR")>>, <<"amount", Num(49900)>> >>),
    O(<< <<"state", S("PENDING")>> >>),
    N, Num(5) }

\* JSON.parse(text): a SyntaxError on what is no JSON text.
JsonParse(text) ==
  IF \E v \in ResponseValues : JsonText(v) = text
  THEN CHOOSE v \in ResponseValues : JsonText(v) = text
  ELSE Thrown("SyntaxError: Unexpected token")

\* README.md:1224-1231  the inner try/catch.  Buffer.from(x, 'base64') throws a
\* TypeError on what is no string (undefined, null, a number, a plain
\* object); the catch block then reads data.response again.
DecodeResponse(data) ==
  LET response == Get(data, "response")
      parsed == IF IsThrown(response) THEN response
                ELSE IF response.t # "string"
                THEN Thrown("TypeError: The first argument must be of type string")
                ELSE JsonParse(Base64Decode(response.v))
  IN IF IsThrown(parsed) THEN response ELSE parsed

\* success set whatever the state.
SuccessAlways(state) == B(TRUE)

\* README.md:1240  success: responseData.state === 'COMPLETED'
SuccessOf(state) == B(state = S("COMPLETED"))

\* README.md:1233-1241
PhonePeResult(responseData) ==
  LET fields == << Get(responseData, "merchantTransactionId"),
                   Get(responseData, "state"),
                   Get(responseData, "responseCode"),
                   Get(responseData, "amount"),
                   Get(responseData, "transactionDate") >>
  IN IF IsThrown(FirstThrown(fields)) THEN FirstThrown(fields)
     ELSE O(<< <<"valid", B(TRUE)>>, <<"transactionId", fields[1]>>,
               <<"status", fields[2]>>, <<"responseCode", fields[3]>>,
               <<"amount", fields[4]>>, <<"timestamp", fields[5]>>,
               <<"success", SuccessOf(fields[2])>> >>)

InvalidAuthentication ==
  O(<< <<"valid", B(FALSE)>>, <<"message", S("Invalid authentication")>> >>)

\* README.md:1221-1241  what follows the two checks.
PhonePeVerified(webhookData) ==
  IF IsThrown(Get(webhookData, "data")) THEN Get(webhookData, "data")
  ELSE PhonePeResult(DecodeResponse(Get(webhookData, "data")))

\* The handler with the Basic-Auth comparison left out.
handlePhonePeWebhookSaltNoAuth(webhookData, xVerifyHeader, authHeader) ==
  IF ~verifyPhonePeSignature(JsonStringify(webhookData), xVerifyHeader)
  THEN InvalidSignature
  ELSE PhonePeVerified(webhookData)

\* README.md:1194-1246  the catch block (1242-1245) rethrows.
handlePhonePeWebhookSalt(webhookData, xVerifyHeader, authHeader) ==
  IF ProvidedAuth(authHeader) # ExpectedAuth THEN InvalidAuthentication
  ELSE IF ~verifyPhonePeSignature(JsonStringify(webhookData), xVerifyHeader)
  THEN InvalidSignature
  ELSE PhonePeVerified(webhookData)

(***************************************************************************)
(* OAuth PhonePe webhook handler, part_000:262-293.                        *)
(***************************************************************************)
NotProcessed ==
  O(<< <<"processed", B(FALSE)>>, <<"message", S("Invalid webhook format")>> >>)

\* The handler that reports every body as processed.
handlePhonePeWebhookOAuthNoDataCheck(webhookData) ==
  LET data == OptGet(webhookData, "data")
  IN O(<< <<"processed", B(TRUE)>>,
          <<"orderId", OptGet(data, "merchantOrderId")>>,
          <<"status", OptGet(data, "state")>>,
          <<"amount", OptGet(data, "amount")>>,
          <<"success", OptGet(webhookData, "success")>> >>)

\* The handler that destructures webhookData itself, not `webhookData || {}`.
handlePhonePeWebhookOAuthUnguarded(webhookData) ==
  IF IsThrown(Get(webhookData, "data")) THEN Get(webhookData, "data")
  ELSE IF ~Truthy(Get(webhookData, "data")) THEN NotProcessed
  ELSE handlePhonePeWebhookOAuthNoDataCheck(webhookData)

\* part_000:262-293  `webhookData || {}` is destructured, so nothing here
\* reads a property of undefined or null.
handlePhonePeWebhookOAuth(webhookData) ==
  LET body == IF Truthy(webhookData) THEN webhookData ELSE O(<<>>)
      data == Get(body, "data")
      success == Get(body, "success")
  IN IF ~Truthy(webhookData) \/ ~Truthy(data) THEN NotProcessed
     ELSE O(<< <<"processed", B(TRUE)>>,
               <<"orderId", OptGet(data, "merchantOrderId")>>,
               <<"status", OptGet(data, "state")>>,
               <<"amount", OptGet(data, "amount")>>,
               <<"success", success>> >>)

\* part_000:265 and 268: data and success are read of every body that has
\* properties at all.
OAuthFieldsRead(webhookData) ==
  IF Nullish(webhookData) THEN {} ELSE {"data", "success"}

\* README.md:1221: data is read after the two checks, and only then.
SaltFieldsRead(webhookData, xVerifyHeader, authHeader) ==
  IF ProvidedAuth(authHeader) # ExpectedAuth THEN {}
  ELSE IF ~verifyPhonePeSignature(JsonStringify(webhookData), xVerifyHeader) THEN {}
  ELSE IF Nullish(webhookData) THEN {}
  ELSE {"data"}

(***************************************************************************)
(* What the handlers write to the log, utils/logger.js:21-26.  An entry is *)
(* <<level, message>>; an argument that throws while it is evaluated       *)
(* leaves no entry.                                                        *)
(***************************************************************************)
\* part_000:455-506  the entry of each case of the switch.
RazorpayEventLog(event) ==
  CASE event = S("payment.authorized") -> <<"info", "Payment authorized">>
    [] event = S("payment.failed") -> <<"warn", "Payment failed">>
    [] event = S("payment.captured") -> <<"info", "Payment captured">>
    [] event = S("refund.created") -> <<"info", "Refund created">>
    [] OTHER -> <<"debug", "Unknown Razorpay event">>

\* part_000:438, 446, 450, 508
handleRazorpayWebhookLog(webhookData, webhookSignature) ==
  LET result == handleRazorpayWebhook(webhookData, webhookSignature)
      entry == IF Nullish(webhookData) THEN <<>>
               ELSE << <<"info", "Handling Razorpay webhook">> >>
      check == IF Nullish(webhookData) \/ IsThrown(RazorpayDigest(webhookData))
               THEN <<>>
               ELSE IF RazorpayDigest(webhookData) # webhookSignature
               THEN << <<"warn", "Razorpay webhook signature mismatch">> >>
               ELSE << <<"info", "Razorpay webhook verified">> >>
                    \o (IF IsThrown(result) THEN <<>>
                        ELSE <<RazorpayEventLog(Get(webhookData, "event"))>>)
      failure == IF IsThrown(result)
                 THEN << <<"error", "Razorpay webhook handling error">> >>
                 ELSE <<>>
  IN entry \o check \o failure

\* README.md:1204, 1208, 1215, 1219, 1243
handlePhonePeWebhookSaltLog(webhookData, xVerifyHeader, authHeader) ==
  IF ProvidedAuth(authHeader) # ExpectedAuth
  THEN << <<"warn", "PhonePe webhook authentication failed">> >>
  ELSE << <<"info", "PhonePe webhook authenticated">> >>
       \o (IF ~verifyPhonePeSignature(JsonStringify(webhookData), xVerifyHeader)
           THEN << <<"warn", "PhonePe webhook signature mismatch">> >>
           ELSE << <<"info", "PhonePe webhook verified">> >>
                \o (IF IsThrown(handlePhonePeWebhookSalt(webhookData, xVerifyHeader,
                                                          authHeader))
                    THEN << <<"error", "PhonePe webhook handling error">> >>
                    ELSE <<>>))

\* part_000:264, 271, 275, 290
handlePhonePeWebhookOAuthLog(webhookData) ==
  << <<"info", "Processing PhonePe webhook">> >>
  \o (IF IsThrown(handlePhonePeWebhookOAuth(webhookData))
      THEN << <<"error", "PhonePe webhook processing error">> >>
      ELSE IF handlePhonePeWebhookOAuth(webhookData) = NotProcessed
      THEN << <<"warn", "PhonePe webhook missing data field">> >>
      ELSE << <<"info", "PhonePe webhook processed">> >>)

(***************************************************************************)
(* POST /api/webhook/phonepe, webhooks.js:65-72.  The route passes the     *)
(* body alone; impl is the module deployed as gateways/phonepe.js.         *)
(***************************************************************************)
PhonePeRouteHandler(impl, body) ==
  IF impl = "oauth" THEN handlePhonePeWebhookOAuth(body)
  ELSE handlePhonePeWebhookSalt(body, U, U)

\* webhooks.js:68 and 70
PhonePeRouteResponse(result) ==
  IF IsThrown(result)
  THEN [status |-> 200, body |-> O(<< <<"success", B(FALSE)>> >>)]
  ELSE [status |-> 200,
        body |-> O(<< <<"success", B(TRUE)>>, <<"data", result>> >>)]

\* webhooks.js:65-72 writes nothing to the log itself.
PhonePeRouteLog(impl, body) ==
  (IF impl = "oauth" THEN handlePhonePeWebhookOAuthLog(body)
   ELSE handlePhonePeWebhookSaltLog(body, U, U))
  \o << <<"sent", "200">> >>

(***************************************************************************)
(* POST /api/webhook/razorpay, webhooks.js:16-59, and POST                *)
(* /api/webhook/cashfree, webhooks.js:81-122: the same code but for the    *)
(* names.  `result` is what the handler returns or throws when the route   *)
(* gets to call it, handlerLog what the handler logs in that call.  The    *)
(* log of a request ends with the response: <<"sent", status>>.            *)
(***************************************************************************)
\* res.status(status).json(body)
Send(status, body) == [status |-> status, body |-> body]

Sent(status) == << <<"sent", ToString(status)>> >>

\* webhooks.js:51-58, 115-121  the catch block of the route.
RouteCatch(gateway, message) ==
  [http |-> Send(200, O(<< <<"success", B(FALSE)>>, <<"error", S(message)>> >>)),
   log |-> << <<"error", "Error processing " \o gateway \o " webhook">> >> \o Sent(200),
   invoked |-> FALSE]

\* The route acknowledging whatever the handler answered.
SignedWebhookRouteAccepting(gateway, body, signature, result, handlerLog) ==
  [http |-> Send(200, O(<< <<"success", B(TRUE)>>,
                           <<"message", S("Webhook received")>>,
                           <<"data", result>> >>)),
   log |-> handlerLog \o Sent(200),
   invoked |-> TRUE]

\* The route answering 400 to a handler that threw.
SignedWebhookRouteRejecting(gateway, body, signature, result, handlerLog) ==
  [http |-> Send(400, O(<< <<"error", S("rejected")>> >>)),
   log |-> Sent(400),
   invoked |-> TRUE]

\* The route calling the handler without looking for the signature.
SignedWebhookRouteUnchecked(gateway, body, signature, result, handlerLog) ==
  LET received == << <<"info", "Received " \o gateway \o " webhook">> >>
  IN IF Nullish(body)
     THEN RouteCatch(gateway, "Cannot read properties of " \o body.t)
     ELSE IF IsThrown(result)
     THEN [RouteCatch(gateway, result.message) EXCEPT
             !.log = received \o handlerLog \o @, !.invoked = TRUE]
     ELSE IF ~Truthy(Get(result, "valid"))
     THEN [http |-> Send(400, O(<< <<"error", Get(result, "message")>> >>)),
           log |-> received \o handlerLog \o Sent(400),
           invoked |-> TRUE]
     ELSE [http |-> Send(200, O(<< <<"success", B(TRUE)>>,
                                   <<"message", S("Webhook received")>>,
                                   <<"data", result>> >>)),
           log |-> received \o handlerLog
                   \o << <<"info", gateway \o " webhook processed">> >> \o Sent(200),
           invoked |-> TRUE]

\* webhooks.js:16-59, 81-122
SignedWebhookRoute(gateway, body, signature, result, handlerLog) ==
  LET received == << <<"info", "Received " \o gateway \o " webhook">> >>
  IN IF Nullish(body)
     THEN \* webhookData.event / webhookData.type throws
          RouteCatch(gateway, "Cannot read properties of " \o body.t)
     ELSE IF ~Truthy(signature)
     THEN [http |-> Send(400, O(<< <<"error", S("Missing signature")>> >>)),
           log |-> received
                   \o << <<"warn", "Missing " \o gateway \o " webhook signature">> >>
                   \o Sent(400),
           invoked |-> FALSE]
     ELSE IF IsThrown(result)
     THEN [RouteCatch(gateway, result.message) EXCEPT
             !.log = received \o handlerLog \o @, !.invoked = TRUE]
     ELSE IF ~Truthy(Get(result, "valid"))
     THEN [http |-> Send(400, O(<< <<"error", Get(result, "message")>> >>)),
           log |-> received \o handlerLog \o Sent(400),
           invoked |-> TRUE]
     ELSE [http |-> Send(200, O(<< <<"success", B(TRUE)>>,
                                   <<"message", S("Webhook received")>>,
                                   <<"data", result>> >>)),
           log |-> received \o handlerLog
                   \o << <<"info", gateway \o " webhook processed">> >> \o Sent(200),
           invoked |-> TRUE]

\* What handleCashfreeWebhook of gateways/cashfree.js may answer: a result
\* with valid true, one with valid false, or an error thrown.
CashfreeResults ==
  {O(<< <<"valid", B(TRUE)>>, <<"orderId", S("order_1")>>, <<"success", B(TRUE)>> >>),
   O(<< <<"valid", B(FALSE)>>, <<"message", S("Invalid signature")>> >>),
   Thrown("Cashfree webhook handling failed")}

\* The bodies and x-webhook-signature values of the Cashfree requests.
CashfreeBodies == {U, O(<<>>), O(<< <<"type", S("PAYMENT_SUCCESS")>> >>)}

CashfreeSignatures == {U, S(""), S("0000"), S("sig_1")}

(***************************************************************************)
(* validators.js:26-36  validateGateway.                                   *)
(***************************************************************************)
UpperCaseLetters == "ABCDEFGHIJKLMNOPQRSTUVWXYZ"

LowerCaseLetters == "abcdefghijklmnopqrstuvwxyz"

LowerChar(ch) ==
  IF \E i \in 1..26 : SubSeq(UpperCaseLetters, i, i) = ch
  THEN LET i == CHOOSE j \in 1..26 : SubSeq(UpperCaseLetters, j, j) = ch
       IN SubSeq(LowerCaseLetters, i, i)
  ELSE ch

RECURSIVE ToLowerCase(_)
\* String.prototype.toLowerCase on the letters A-Z.
ToLowerCase(s) ==
  IF s = "" THEN ""
  ELSE LowerChar(SubSeq(s, 1, 1)) \o ToLowerCase(SubSeq(s, 2, Len(s)))

\* validators.js:27
validGateways == <<"razorpay", "phonepe", "cashfree">>

\* validators.js:32  validGateways.join(', ')
JoinedGateways == validGateways[1] \o ", " \o validGateways[2] \o ", " \o validGateways[3]

\* validators.js:26-36.  gateway.toLowerCase is undefined on a truthy value
\* that is no string (a number, true, an object), and calling it throws.
validateGateway(gateway) ==
  IF ~Truthy(gateway)
  THEN O(<< <<"valid", B(FALSE)>>, <<"error", S("Gateway is required")>> >>)
  ELSE IF gateway.t # "string"
  THEN Thrown("TypeError: gateway.toLowerCase is not a function")
  ELSE IF \A i \in 1..Len(validGateways) : validGateways[i] # ToLowerCase(gateway.v)
  THEN O(<< <<"valid", B(FALSE)>>,
            <<"error", S("Invalid gateway. Supported: " \o JoinedGateways)>> >>)
  ELSE O(<< <<"valid", B(TRUE)>> >>)

\* The gateway values of a request body: missing, null, empty, the three
\* names, other names, other letter cases, and values that are no strings.
GatewayValues ==
  {U, N, S(""), S("razorpay"), S("phonepe"), S("cashfree"), S("paypal"),
   S("stripe"), S("RAZORPAY"), S("PhonePe"), S("Cashfree"), S("razorpay "),
   S("razor"), Num(0), Num(5), B(FALSE), B(TRUE), O(<<>>),
   O(<< <<"name", S("razorpay")>> >>)}

(***************************************************************************)
(* part_000:380-410  verifyRazorpaySignature.                              *)
(***************************************************************************)
\* part_000:389  `${orderId}|${paymentId}`
SignedText(orderId, paymentId) == ToStr(orderId) \o "|" \o ToStr(paymentId)

\* verifyRazorpaySignature that leaves the payment id out of the signed text.
verifyRazorpaySignatureOrderOnly(params) ==
  IF IsThrown(Get(params, "orderId")) THEN Get(params, "orderId")
  ELSE IF RAZORPAY_KEY_SECRET.t # "string"
  THEN Thrown("TypeError: The \"key\" argument must be of type string")
  ELSE B(S(HmacSha256Hex(RAZORPAY_KEY_SECRET.v, ToStr(Get(params, "orderId"))))
           = Get(params, "signature"))

\* part_000:380-410.  Destructuring undefined or null throws, createHmac
\* throws on an undefined key, and the catch block rethrows.
verifyRazorpaySignature(params) ==
  IF IsThrown(Get(params, "orderId")) THEN Get(params, "orderId")
  ELSE IF RAZORPAY_KEY_SECRET.t # "string"
  THEN Thrown("TypeError: The \"key\" argument must be of type string")
  ELSE B(S(HmacSha256Hex(RAZORPAY_KEY_SECRET.v,
                         SignedText(Get(params, "orderId"), Get(params, "paymentId"))))
           = Get(params, "signature"))

\* part_000:384, 395, 400, 405
verifyRazorpaySignatureLog(params) ==
  IF Nullish(params)
  THEN << <<"error", "Razorpay signature verification error">> >>
  ELSE << <<"info", "Verifying Razorpay signature">> >>
       \o (IF IsThrown(verifyRazorpaySignature(params))
           THEN << <<"error", "Razorpay signature verification error">> >>
           ELSE IF verifyRazorpaySignature(params) = B(TRUE)
           THEN << <<"info", "Razorpay signature verified successfully">> >>
           ELSE << <<"warn", "Razorpay signature verification failed">> >>)

\* The ids of a verification request: ids as Razorpay issues them, ids with
\* the separator in them, and a missing id.
OrderIds == {S("order_1"), S("order_2"), S("order_1|pay_1"), U}

PaymentIds == {S("pay_1"), S("pay_2"), S("pay_1|pay_2"), U}

\* s with its last character replaced.
LastCharChanged(s) == SubSeq(s, 1, Len(s) - 1) \o "0"

\* The signatures tried with a pair: none, a constant, the signature of
\* every pair, and the signature of this pair with one character changed.
PaymentSignatures(orderId, paymentId) ==
  {U, S("0000"),
   S(LastCharChanged(HmacSha256Hex("s3cr3t", SignedText(orderId, paymentId))))}
    \cup {S(HmacSha256Hex("s3cr3t", SignedText(o, p))) : o \in OrderIds, p \in PaymentIds}

VerificationParams ==
  {U} \cup
  UNION {{O(<< <<"orderId", o>>, <<"paymentId", p>>, <<"signature", g>> >>) :
            g \in PaymentSignatures(o, p)} : o \in OrderIds, p \in PaymentIds}

\* The request bodies given to generatePhonePeSignature: JSON texts, a
\* base64 payload, the empty text, and undefined (JSON.stringify(undefined)).
SignaturePayloads ==
  {S("{}"), S("{\"data\":{}}"), S("{\"data\":{\"response\":\"x\"}}"),
   S(Base64Encode("{\"merchantId\":\"M1\"}")), S(""), S("SALT1"), U}

\* The X-VERIFY values compared with a body's signature: none, a constant,
\* the signature of every body, this body's hash with another index or
\* without the index.
SignatureHeaders(requestBody) ==
  {U, S("0000"), S(""),
   S(Sha256Hex(ToStr(requestBody) \o PHONEPE_SALT_KEY) \o "###2"),
   S(Sha256Hex(ToStr(requestBody) \o PHONEPE_SALT_KEY))}
    \cup {S(generatePhonePeSignature(b)) : b \in SignaturePayloads}

(***************************************************************************)
(* The requests of the model: bodies as express.json() parses them (or     *)
(* undefined, null), and the headers that come with them.                  *)
(***************************************************************************)
RazorpayEvents ==
  {U, S("payment.authorized"), S("payment.failed"), S("payment.captured"),
   S("refund.created"), S("order.paid")}

PaymentEntity ==
  O(<< <<"id", S("pay_1")>>, <<"error_description", S("declined")>> >>)

RefundEntity ==
  O(<< <<"id", S("rfnd_1")>>, <<"payment_id", S("pay_1")>> >>)

RazorpayPayloads ==
  {U, O(<<>>),
   O(<< <<"payment", O(<<>>)>> >>),
   O(<< <<"payment", O(<< <<"entity", PaymentEntity>> >>)>> >>),
   O(<< <<"refund", O(<< <<"entity", RefundEntity>> >>)>> >>)}

RazorpayBodies ==
  {U} \cup {Obj(<< <<"event", e>>, <<"payload", p>> >>) :
              e \in RazorpayEvents, p \in RazorpayPayloads}

\* The x-razorpay-signature values tried with a body: none, a wrong one, the
\* digest of another body, the digest of this body.
RazorpaySignatures(body) ==
  {U, S("0000"), S(HmacSha256Hex("s3cr3t", "{}"))}
    \cup (IF Nullish(body) THEN {}
          ELSE {S(HmacSha256Hex("s3cr3t", ToStr(JsonStringify(body))))})

ResponseFields ==
  {S(Base64Encode(JsonText(v))) : v \in ResponseValues}
    \cup {S("not-base64-json"), N, Num(5), O(<< <<"state", S("COMPLETED")>> >>)}

PhonePeBodies ==
  {U, N, S("text"), O(<<>>),
   O(<< <<"data", O(<<>>)>> >>),
   O(<< <<"success", B(TRUE)>>, <<"data", S("")>> >>),
   O(<< <<"success", B(TRUE)>>,
        <<"data", O(<< <<"merchantOrderId", S("order_1")>>,
                       <<"state", S("COMPLETED")>>, <<"amount", Num(49900)>> >>)>> >>),
   O(<< <<"success", B(FALSE)>>,
        <<"data", O(<< <<"merchantOrderId", S("order_2")>>,
                       <<"state", S("FAILED")>> >>)>> >>)}
    \cup {O(<< <<"data", O(<< <<"response", r>> >>)>> >>) : r \in ResponseFields}

\* The X-VERIFY values tried with a body: none, a wrong one, this body's
\* hash under another salt index, the signature of this body.
XVerifyHeaders(body) ==
  {U, S("0000"),
   S(Sha256Hex(ToStr(JsonStringify(body)) \o PHONEPE_SALT_KEY) \o "###2"),
   S(generatePhonePeSignature(JsonStringify(body)))}

\* The Authorization values tried: none, empty, the credentials with and
\* without the scheme, other credentials, another scheme, the scheme twice.
AuthHeaders ==
  {U, S(""), S("Basic " \o ExpectedAuth), S(ExpectedAuth),
   S("Basic " \o Base64Encode("hookuser:wrong")), S("Bearer " \o ExpectedAuth),
   S("Basic Basic " \o ExpectedAuth)}

NoRequest ==
  [handler |-> "none", impl |-> "none", body |-> U, signature |-> U,
   xVerify |-> U, auth |-> U]

(***************************************************************************)
(* Webhook calls.  A handler keeps nothing between calls: each action is   *)
(* one whole call, from the request to the result (or the error thrown);   *)
(* WebhookDone is the caller dropping the result before the next call.     *)
(***************************************************************************)
HandleRazorpayWebhook(body, signature) ==
  /\ req = NoRequest
  /\ req' = [NoRequest EXCEPT !.handler = "handleRazorpayWebhook",
                              !.body = body, !.signature = signature]
  /\ res' = handleRazorpayWebhook(body, signature)
  /\ reads' = RazorpayFieldsRead(body, signature)
  /\ http' = U
  /\ log' = handleRazorpayWebhookLog(body, signature)
  /\ UNCHANGED tokenVars

HandlePhonePeWebhookSalt(body, xVerify, auth) ==
  /\ req = NoRequest
  /\ req' = [NoRequest EXCEPT !.handler = "handlePhonePeWebhook", !.impl = "salt",
                              !.body = body, !.xVerify = xVerify, !.auth = auth]
  /\ res' = handlePhonePeWebhookSalt(body, xVerify, auth)
  /\ reads' = SaltFieldsRead(body, xVerify, auth)
  /\ http' = U
  /\ log' = handlePhonePeWebhookSaltLog(body, xVerify, auth)
  /\ UNCHANGED tokenVars

\* The handler dropping the cached token.
HandlePhonePeWebhookOAuthClearing(body) ==
  /\ req = NoRequest
  /\ req' = [NoRequest EXCEPT !.handler = "handlePhonePeWebhook", !.impl = "oauth",
                              !.body = body]
  /\ res' = handlePhonePeWebhookOAuth(body)
  /\ reads' = OAuthFieldsRead(body)
  /\ http' = U
  /\ log' = handlePhonePeWebhookOAuthLog(body)
  /\ tokenCache' = EmptyCache
  /\ UNCHANGED <<now, credsSet, keySecretSet, calls, stored>>

HandlePhonePeWebhookOAuth(body) ==
  /\ req = NoRequest
  /\ req' = [NoRequest EXCEPT !.handler = "handlePhonePeWebhook", !.impl = "oauth",
                              !.body = body]
  /\ res' = handlePhonePeWebhookOAuth(body)
  /\ reads' = OAuthFieldsRead(body)
  /\ http' = U
  /\ log' = handlePhonePeWebhookOAuthLog(body)
  /\ UNCHANGED tokenVars

\* webhooks.js:65-72
PostPhonePeWebhook(impl, body, xVerify, auth) ==
  /\ req = NoRequest
  /\ req' = [NoRequest EXCEPT !.handler = "POST /api/webhook/phonepe",
                              !.impl = impl, !.body = body,
                              !.xVerify = xVerify, !.auth = auth]
  /\ res' = PhonePeRouteHandler(impl, body)
  /\ reads' = IF impl = "oauth" THEN OAuthFieldsRead(body)
              ELSE SaltFieldsRead(body, U, U)
  /\ http' = PhonePeRouteResponse(PhonePeRouteHandler(impl, body))
  /\ log' = PhonePeRouteLog(impl, body)
  /\ UNCHANGED tokenVars

\* webhooks.js:16-59
PostRazorpayWebhook(body, signature) ==
  LET route == SignedWebhookRoute("Razorpay", body, signature,
                                  handleRazorpayWebhook(body, signature),
                                  handleRazorpayWebhookLog(body, signature))
  IN /\ req = NoRequest
     /\ req' = [NoRequest EXCEPT !.handler = "POST /api/webhook/razorpay",
                                 !.body = body, !.signature = signature]
     /\ res' = IF route.invoked THEN handleRazorpayWebhook(body, signature) ELSE U
     /\ reads' = IF route.invoked THEN RazorpayFieldsRead(body, signature)
                 ELSE IF Nullish(body) THEN {} ELSE {"event"}
     /\ http' = route.http
     /\ log' = route.log
     /\ UNCHANGED tokenVars

\* webhooks.js:81-122
PostCashfreeWebhook(body, signature, result) ==
  LET route == SignedWebhookRoute("Cashfree", body, signature, result, <<>>)
  IN /\ req = NoRequest
     /\ req' = [NoRequest EXCEPT !.handler = "POST /api/webhook/cashfree",
                                 !.body = body, !.signature = signature]
     /\ res' = IF route.invoked THEN result ELSE U
     /\ reads' = IF Nullish(body) THEN {} ELSE {"type"}
     /\ http' = route.http
     /\ log' = route.log
     /\ UNCHANGED tokenVars

WebhookDone ==
  /\ req # NoRequest
  /\ req' = NoRequest
  /\ res' = U
  /\ reads' = {}
  /\ http' = U
  /\ log' = <<>>
  /\ UNCHANGED tokenVars

(***************************************************************************)
(* Calls of the validators and of the signature functions, one call per    *)
(* action.                                                                 *)
(***************************************************************************)
ValidateGateway(gateway) ==
  /\ req = NoRequest
  /\ req' = [NoRequest EXCEPT !.handler = "validateGateway", !.body = gateway]
  /\ res' = validateGateway(gateway)
  /\ reads' = {}
  /\ http' = U
  /\ log' = <<>>
  /\ UNCHANGED tokenVars

VerifyRazorpaySignature(params) ==
  /\ req = NoRequest
  /\ req' = [NoRequest EXCEPT !.handler = "verifyRazorpaySignature",
                              !.body = params]
  /\ res' = verifyRazorpaySignature(params)
  /\ reads' = {}
  /\ http' = U
  /\ log' = verifyRazorpaySignatureLog(params)
  /\ UNCHANGED tokenVars

\* README.md:1046-1050.  The function may be called again on the result of
\* a call: it keeps nothing from one call to the next.
GeneratePhonePeSignature(requestBody) ==
  /\ req.handler \in {"none", "generatePhonePeSignature"}
  /\ req' = [NoRequest EXCEPT !.handler = "generatePhonePeSignature",
                              !.body = requestBody]
  /\ res' = S(generatePhonePeSignature(requestBody))
  /\ reads' = {}
  /\ http' = U
  /\ log' = <<>>
  /\ UNCHANGED tokenVars

\* README.md:1058-1061
VerifyPhonePeSignature(requestBody, xVerifyHeader) ==
  /\ req = NoRequest
  /\ req' = [NoRequest EXCEPT !.handler = "verifyPhonePeSignature",
                              !.body = requestBody, !.xVerify = xVerifyHeader]
  /\ res' = B(verifyPhonePeSignature(requestBody, xVerifyHeader))
  /\ reads' = {}
  /\ http' = U
  /\ log' = <<>>
  /\ UNCHANGED tokenVars

InitToken ==
  /\ tokenCache = EmptyCache
  /\ now = 0
  /\ credsSet \in BOOLEAN
  /\ keySecretSet \in BOOLEAN
  /\ calls = [c \in Callers |-> IdleCall]
  /\ stored = NoResponse

InitWebhook ==
  /\ req = NoRequest
  /\ res = U
  /\ reads = {}
  /\ http = U
  /\ log = <<>>

Init == InitToken /\ InitWebhook

NextToken ==
  \/ \E c \in Callers, op \in Ops : StartCall(c, op, SomeAmount)
  \/ \E c \in Callers, a \in AccessTokens \cup {U}, e \in ExpiresInValues :
       TokenResponse(c, a, e)
  \/ \E c \in Callers : TokenFetchFails(c)
  \/ \E c \in Callers : CallUpstream(c)
  \/ \E c \in Callers, outcome \in SomeOutcomes : UpstreamResponse(c, outcome)
  \/ \E c \in Callers : Return(c)
  \/ ClearTokenCache
  \/ Tick

\* The token cache and its callers alone.
SpecToken == Init /\ [][NextToken]_vars

\* server.js:36-37  express.json() and express.urlencoded() of Express
\* 4.18.2 (README.md:537) run before the routes: req.body is the parsed
\* object, or {} when the request has no body they parse.
ParsedBodies(bodies) == {b \in bodies : b.t = "object"}

NextWebhook ==
  \/ \E body \in RazorpayBodies : \E signature \in RazorpaySignatures(body) :
       HandleRazorpayWebhook(body, signature)
  \/ \E body \in PhonePeBodies, auth \in AuthHeaders :
       \E xVerify \in XVerifyHeaders(body) :
         HandlePhonePeWebhookSalt(body, xVerify, auth)
  \/ \E body \in PhonePeBodies : HandlePhonePeWebhookOAuth(body)
  \/ \E impl \in {"oauth", "salt"}, body \in ParsedBodies(PhonePeBodies),
        auth \in AuthHeaders :
       \E xVerify \in XVerifyHeaders(body) :
         PostPhonePeWebhook(impl, body, xVerify, auth)
  \/ \E body \in ParsedBodies(RazorpayBodies) :
       \E signature \in RazorpaySignatures(body) \cup {S("")} :
         PostRazorpayWebhook(body, signature)
  \/ \E body \in ParsedBodies(CashfreeBodies), signature \in CashfreeSignatures,
        result \in CashfreeResults :
       PostCashfreeWebhook(body, signature, result)
  \/ WebhookDone

\* The webhook handlers and routes alone.
SpecWebhook == Init /\ [][NextWebhook]_vars

NextCalls ==
  \/ \E gateway \in GatewayValues : ValidateGateway(gateway)
  \/ \E params \in VerificationParams : VerifyRazorpaySignature(params)
  \/ \E requestBody \in SignaturePayloads : GeneratePhonePeSignature(requestBody)
  \/ \E requestBody \in SignaturePayloads :
       \E xVerifyHeader \in SignatureHeaders(requestBody) :
         VerifyPhonePeSignature(requestBody, xVerifyHeader)
  \/ WebhookDone

\* The validators and the signature functions alone.
SpecCalls == Init /\ [][NextCalls]_vars

\* One caller, every operation of the adapters, every amount.
NextOps ==
  \/ \E op \in Ops, amount \in Amounts : StartCall("c1", op, amount)
  \/ \E op \in DirectOps, amount \in Amounts : StartDirectCall("c1", op, amount)
  \/ \E a \in AccessTokens \cup {U}, e \in ExpiresInValues :
       TokenResponse("c1", a, e)
  \/ TokenFetchFails("c1")
  \/ CallUpstream("c1")
  \/ \E outcome \in AxiosOutcomes \cup RazorpayOutcomes \cup PayOutcomes :
       UpstreamResponse("c1", outcome)
  \/ Return("c1")
  \/ ClearTokenCache
  \/ Tick

\* The operations of the adapters, one call at a time.
SpecOps == Init /\ [][NextOps]_vars

\* The requests of the webhook calls that run among token fetches.
SomeRazorpayBodies ==
  {b \in RazorpayBodies : Nullish(b) \/ Get(b, "event") = S("payment.captured")}

SomePhonePeBodies ==
  {b \in PhonePeBodies :
     Nullish(b) \/ HasKey(b, "success") \/ Get(b, "data") = O(<<>>)}

SomeAuthHeaders == {U, S("Basic " \o ExpectedAuth)}

\* One caller of the OAuth operations, and webhook calls between its steps.
NextFrame ==
  \/ \E op \in Ops : StartCall("c1", op, SomeAmount)
  \/ \E a \in AccessTokens \cup {U}, e \in ExpiresInValues :
       TokenResponse("c1", a, e)
  \/ TokenFetchFails("c1")
  \/ CallUpstream("c1")
  \/ \E outcome \in SomeOutcomes : UpstreamResponse("c1", outcome)
  \/ Return("c1")
  \/ ClearTokenCache
  \/ Tick
  \/ \E body \in SomeRazorpayBodies : \E signature \in RazorpaySignatures(body) :
       HandleRazorpayWebhook(body, signature)
  \/ \E body \in SomePhonePeBodies, auth \in SomeAuthHeaders :
       \E xVerify \in XVerifyHeaders(body) :
         HandlePhonePeWebhookSalt(body, xVerify, auth)
  \/ \E body \in SomePhonePeBodies : HandlePhonePeWebhookOAuth(body)
  \/ WebhookDone

\* Webhook calls interleaved with the operations that use the token cache.
SpecFrame == Init /\ [][NextFrame]_vars

\* The operations that build an identifier from the clock.
IdOps == {"createPhonePeOrderSalt", "refundPhonePePaymentSalt"}

NextIds ==
  \/ \E c \in Callers, op \in IdOps : StartDirectCall(c, op, SomeAmount)
  \/ \E c \in Callers : StartCall(c, "refundPhonePePayment", SomeAmount)
  \/ \E c \in Callers : TokenResponse(c, S("tokA"), Num(120))
  \/ \E c \in Callers : CallUpstream(c)
  \/ \E c \in Callers, outcome \in SomeOutcomes : UpstreamResponse(c, outcome)
  \/ \E c \in Callers : Return(c)
  \/ Tick

\* Two callers of the operations that generate identifiers.
SpecIds == Init /\ [][NextIds]_vars

Next == NextToken \/ NextWebhook \/ NextCalls \/ NextOps \/ NextFrame \/ NextIds

Spec == Init /\ [][Next]_vars

(***************************************************************************)
(* Properties of the token cache (checked under SpecToken).                *)
(***************************************************************************)

\* The test of part_000:29 written out on the state: a token is cached and
\* its expiry lies after the current time.
TokenUsable ==
  /\ tokenCache.accessToken.t = "string"
  /\ tokenCache.accessToken.v # ""
  /\ tokenCache.expiresAt.t = "number"
  /\ tokenCache.expiresAt.v > now

Starts(c) == calls[c].pc = "idle" /\ calls'[c].pc # "idle"

\* C1 as claimed: while the cache is empty or expired, concurrent callers
\* share one token fetch, so at most one fetch is in flight at any time.
C1_SingleFlight ==
  Cardinality({c \in Callers : calls[c].pc = "awaitToken"}) <= 1

\* C1 as amended: a call issues a token fetch exactly when it starts on a
\* cache without a usable token (and the credentials are configured),
\* whatever the other callers are doing, and never more than one; no call
\* issues a fetch later than at its start.
C1_OneFetchPerMissingCaller ==
  [][\A c \in Callers :
       /\ Starts(c) =>
            calls'[c].fetches = (IF ~TokenUsable /\ credsSet THEN 1 ELSE 0)
       /\ (~Starts(c) /\ calls'[c].pc # "idle") =>
            calls'[c].fetches = calls[c].fetches]_vars

\* Two callers found the cache empty and each has its own fetch in flight.
C1_Witness ==
  /\ \A c \in Callers : calls[c].pc = "awaitToken" /\ calls[c].fetches = 1
  /\ tokenCache = EmptyCache

\* C2: once a fetch has stored a token, a call that starts while expiresAt
\* is greater than the current time gets that very token, issues no token
\* fetch and leaves the cache as it is.
C2_CachedTokenReused ==
  [][\A c \in Callers :
       (Starts(c) /\ TokenUsable) =>
          /\ calls'[c].pc = "gotToken"
          /\ calls'[c].tok = tokenCache.accessToken
          /\ calls'[c].tok = stored.access_token
          /\ calls'[c].fetches = 0
          /\ tokenCache' = tokenCache]_vars

\* A call, started after the clock moved past the fetch, holds the cached
\* token without having fetched.
C2_Witness ==
  \E c \in Callers :
    /\ calls[c].pc = "gotToken"
    /\ calls[c].fetches = 0
    /\ calls[c].tok = tokenCache.accessToken
    /\ now > stored.at

\* C3: a successful fetch at time now reporting expires_in stores
\* expiresAt = now + (expires_in - 60) * 1000 ms; a starting call reuses the
\* cached token iff a token is cached and expiresAt > now, and otherwise
\* fetches; a token reported with expires_in <= 60 is never reused.
C3_ExpiryAndReuse ==
  [][\A c \in Callers :
       /\ (calls[c].pc = "awaitToken" /\ calls'[c].pc = "gotToken") =>
            /\ tokenCache'.accessToken = calls'[c].tok
            /\ stored'.at = now
            /\ stored'.expires_in.t = "number" =>
                 tokenCache'.expiresAt =
                   Num(now + (stored'.expires_in.v - 60) * 1000)
       /\ (Starts(c) /\ stored.access_token # N) =>
            /\ (calls'[c].pc = "gotToken") <=> TokenUsable
            /\ ~TokenUsable => (calls'[c].pc = "awaitToken" /\ calls'[c].fetches = 1)
            /\ calls'[c].pc = "gotToken" =>
                 (stored.expires_in.t = "number" /\ stored.expires_in.v > 60)]_vars

\* A token reported with expires_in = 120 at time t is cached until t + 60 s
\* and a call has reused it.
C3_Witness ==
  \E c \in Callers :
    /\ calls[c].pc = "gotToken"
    /\ calls[c].fetches = 0
    /\ stored.expires_in = Num(120)
    /\ tokenCache.expiresAt = Num(stored.at + 60000)
    /\ calls[c].tok = stored.access_token

(***************************************************************************)
(* Properties of the webhook handlers (checked under SpecWebhook).         *)
(***************************************************************************)
IsRazorpay == req.handler = "handleRazorpayWebhook"

IsSalt == req.handler = "handlePhonePeWebhook" /\ req.impl = "salt"

IsOAuth == req.handler = "handlePhonePeWebhook" /\ req.impl = "oauth"

IsPhonePeRoute == req.handler = "POST /api/webhook/phonepe"

\* The signature Razorpay would send with the body.
SignatureMatches ==
  /\ keySecretSet
  /\ req.signature = S(HmacSha256Hex("s3cr3t", ToStr(JsonStringify(req.body))))

\* The credentials of the Authorization header are base64(user:pass).
AuthPasses == ProvidedAuth(req.auth) = Base64Encode("hookuser:hookpass")

\* The X-VERIFY header is the signature of the serialized body.
XVerifyPasses ==
  req.xVerify =
    S(Sha256Hex(ToStr(JsonStringify(req.body)) \o "SALT1") \o "###1")

\* The entity the case of the event reads is there.
EntityPresent ==
  LET payload == Get(req.body, "payload")
      event == Get(req.body, "event")
  IN IF event = S("refund.created")
     THEN HasKey(payload, "refund") /\ HasKey(Get(payload, "refund"), "entity")
     ELSE HasKey(payload, "payment") /\ HasKey(Get(payload, "payment"), "entity")

KnownEvent ==
  Get(req.body, "event") \in
    {S("payment.authorized"), S("payment.failed"), S("payment.captured"),
     S("refund.created")}

C5_NothingReadBeforeCheck ==
  (IsRazorpay /\ keySecretSet /\ req.body.t = "object" /\ ~SignatureMatches) =>
     /\ res = InvalidSignature
     /\ reads \cap {"event", "payload"} = {}

\* C5 as amended: valid:true only if the signature is the HMAC-SHA256 of the
\* serialized body; a body object whose signature does not match gets
\* {valid:false, message:'Invalid signature'} and its payload is not read
\* (its event is read, once, for the log line at entry).  This is with the
\* key secret configured; without it the handler throws on every body.
C5_ValidOnlyIfSigned ==
  IsRazorpay =>
     /\ Get(res, "valid") = B(TRUE) => SignatureMatches
     /\ (keySecretSet /\ req.body.t = "object" /\ ~SignatureMatches) =>
          /\ res = InvalidSignature
          /\ reads = {"event"}

\* A payment.captured body with a wrong signature was rejected.
C5_Witness ==
  /\ IsRazorpay
  /\ keySecretSet
  /\ Get(req.body, "event") = S("payment.captured")
  /\ req.signature = S("0000")
  /\ res = InvalidSignature

ExpectedStatus ==
  CASE Get(req.body, "event") = S("payment.authorized") -> S("success")
    [] Get(req.body, "event") = S("payment.failed") -> S("failed")
    [] Get(req.body, "event") = S("payment.captured") -> S("captured")
    [] Get(req.body, "event") = S("refund.created") -> S("refunded")
    [] OTHER -> U

\* C6 as claimed: with a matching signature the event alone decides the
\* result: the four known events give their status, any other event gives
\* {valid:true, processed:false}.
C6_EventDecidesResult ==
  (IsRazorpay /\ req.body.t = "object" /\ SignatureMatches) =>
     /\ Get(res, "valid") = B(TRUE)
     /\ Get(res, "event") = Get(req.body, "event")
     /\ IF KnownEvent
        THEN Get(res, "status") = ExpectedStatus
        ELSE Get(res, "processed") = B(FALSE) /\ ~HasKey(res, "status")

\* C6 as amended: the same, for the bodies whose payload carries the entity
\* the event's case reads (payload.payment.entity, payload.refund.entity for
\* refund.created); a known event without that entity makes the handler
\* throw.  payment.failed carries the entity's error_description as reason.
C6_EventDecidesResultGivenEntity ==
  (IsRazorpay /\ req.body.t = "object" /\ SignatureMatches) =>
     IF KnownEvent /\ ~EntityPresent THEN IsThrown(res)
     ELSE /\ Get(res, "valid") = B(TRUE)
          /\ Get(res, "event") = Get(req.body, "event")
          /\ IF KnownEvent
             THEN /\ Get(res, "status") = ExpectedStatus
                  /\ HasKey(res, "reason") <=>
                       Get(req.body, "event") = S("payment.failed")
             ELSE Get(res, "processed") = B(FALSE) /\ ~HasKey(res, "status")

\* A signed payment.captured event with its entity was reported captured.
C6_Witness ==
  /\ IsRazorpay
  /\ SignatureMatches
  /\ Get(req.body, "event") = S("payment.captured")
  /\ Get(res, "status") = S("captured")
  /\ Get(res, "paymentId") = S("pay_1")

\* C7: the salt-based handler checks the Basic-Auth credentials first and
\* answers a mismatch with 'Invalid authentication' whatever X-VERIFY is;
\* with the credentials right, a wrong X-VERIFY gets 'Invalid signature';
\* data is read and valid:true returned only after both checks passed.
C7_TwoStageVerification ==
  IsSalt =>
     /\ ~AuthPasses => res = InvalidAuthentication
     /\ (AuthPasses /\ ~XVerifyPasses) => res = InvalidSignature
     /\ Get(res, "valid") = B(TRUE) => (AuthPasses /\ XVerifyPasses)
     /\ "data" \in reads => (AuthPasses /\ XVerifyPasses)

\* Wrong credentials with the right X-VERIFY were rejected at the first
\* stage.
C7_Witness ==
  /\ IsSalt
  /\ ~AuthPasses
  /\ XVerifyPasses
  /\ HasKey(Get(req.body, "data"), "response")
  /\ res = InvalidAuthentication

ResponseField == Get(Get(req.body, "data"), "response")

\* data.response is a string that decodes to the JSON text of a value.
Decodable ==
  /\ ResponseField.t = "string"
  /\ \E v \in ResponseValues : ResponseField.v = Base64Encode(JsonText(v))

DecodedValue ==
  CHOOSE v \in ResponseValues : ResponseField.v = Base64Encode(JsonText(v))

\* C8 as claimed: a webhook that passed both checks gets a result whose
\* success is true iff the decoded state is "COMPLETED"; when data.response
\* cannot be decoded the result is still returned, with success false.
C8_FallbackAlwaysReturns ==
  (IsSalt /\ AuthPasses /\ XVerifyPasses /\ HasKey(req.body, "data")) =>
     /\ ~IsThrown(res)
     /\ Get(res, "success") =
          B(Decodable /\ Get(DecodedValue, "state") = S("COMPLETED"))

\* C8 as amended: whenever the handler returns after both checks, success
\* is true iff the state of the decoded value, or of the raw data.response
\* when decoding failed, is "COMPLETED".  A string that is no base64 JSON is
\* used raw and gives success false; when data or data.response is missing
\* or null, or decodes to JSON null, the handler throws.
C8_SuccessIffCompleted ==
  (IsSalt /\ AuthPasses /\ XVerifyPasses) =>
     LET used == IF Decodable THEN DecodedValue ELSE ResponseField
     IN IF Nullish(req.body) \/ Nullish(Get(req.body, "data")) \/ Nullish(used)
        THEN IsThrown(res)
        ELSE /\ Get(res, "valid") = B(TRUE)
             /\ Get(res, "status") = Get(used, "state")
             /\ Get(res, "success") = B(Get(used, "state") = S("COMPLETED"))
             /\ (ResponseField.t = "string" /\ ~Decodable) =>
                  Get(res, "success") = B(FALSE)

\* A verified webhook whose data.response is no base64 JSON got a result
\* with success false.
C8_Witness ==
  /\ IsSalt /\ AuthPasses /\ XVerifyPasses
  /\ ResponseField = S("not-base64-json")
  /\ Get(res, "valid") = B(TRUE)
  /\ Get(res, "success") = B(FALSE)

\* C9: the OAuth handler checks no header: whatever comes with the body, it
\* returns processed:false iff the body is absent or has no truthy data, and
\* otherwise processed:true with orderId, status, amount and success as they
\* are in the payload.
C9_OAuthTrustsData ==
  req.impl = "oauth" =>
       LET data == OptGet(req.body, "data")
       IN IF ~Truthy(req.body) \/ ~Truthy(data)
          THEN res = NotProcessed
          ELSE res = O(<< <<"processed", B(TRUE)>>,
                          <<"orderId", OptGet(data, "merchantOrderId")>>,
                          <<"status", OptGet(data, "state")>>,
                          <<"amount", OptGet(data, "amount")>>,
                          <<"success", Get(req.body, "success")>> >>)

\* A request with no Authorization and a wrong X-VERIFY was processed.
C9_Witness ==
  /\ IsPhonePeRoute /\ req.impl = "oauth"
  /\ req.auth = U /\ req.xVerify = S("0000")
  /\ Get(res, "processed") = B(TRUE)
  /\ Get(res, "orderId") = S("order_1")
  /\ Get(res, "success") = B(TRUE)

\* The response reports the webhook as a valid or processed payment event.
ReportedAsEvent ==
  /\ http # U
  /\ Get(http.body, "success") = B(TRUE)
  /\ \/ OptGet(Get(http.body, "data"), "valid") = B(TRUE)
     \/ OptGet(Get(http.body, "data"), "processed") = B(TRUE)

\* C10: POST /api/webhook/phonepe reports a request as a valid or processed
\* payment event only if its Basic-Auth credentials and its X-VERIFY
\* signature are right, and reports every verified callback so.
C10_RouteRequiresAuthAndSignature ==
  IsPhonePeRoute =>
     /\ ReportedAsEvent => (AuthPasses /\ XVerifyPasses)
     /\ (AuthPasses /\ XVerifyPasses /\ Decodable /\ DecodedValue.t = "object") =>
          ReportedAsEvent

(***************************************************************************)
(* Properties of the validators and signature functions (SpecCalls).       *)
(***************************************************************************)
IsValidateGateway == req.handler = "validateGateway"

\* C11: validateGateway returns valid:true only when the value names one of
\* razorpay, phonepe, cashfree, and returns valid:false with an error for
\* every other value.
C11_ValidateGatewayRejectsOthers ==
  IsValidateGateway =>
     IF req.body \in {S("razorpay"), S("phonepe"), S("cashfree")}
     THEN res = O(<< <<"valid", B(TRUE)>> >>)
     ELSE \/ /\ req.body.t = "string"
             /\ ToLowerCase(req.body.v) \in {"razorpay", "phonepe", "cashfree"}
          \/ /\ Get(res, "valid") = B(FALSE)
             /\ Get(res, "error").t = "string"

IsVerifySignature ==
  /\ req.handler = "verifyRazorpaySignature"
  /\ req.body.t = "object"
  /\ keySecretSet

\* The signature Razorpay computes for a pair of ids.
SignatureOf(orderId, paymentId) ==
  S("hmac-sha256(s3cr3t," \o ToStr(orderId) \o "|" \o ToStr(paymentId) \o ")")

\* C12 as claimed: with the key secret configured, verifyRazorpaySignature
\* returns true iff the signature is the HMAC of "orderId|paymentId", and
\* never returns true for the signature of a different pair of ids.
C12_NeverTrueForAnotherPair ==
  IsVerifySignature =>
     LET o == Get(req.body, "orderId")
         p == Get(req.body, "paymentId")
         g == Get(req.body, "signature")
     IN /\ res = B(g = SignatureOf(o, p))
        /\ \A o2 \in OrderIds, p2 \in PaymentIds :
             (<<o2, p2>> # <<o, p>> /\ g = SignatureOf(o2, p2)) => res = B(FALSE)

\* C12 as amended: with the key secret configured, verifyRazorpaySignature
\* returns true iff the signature is the HMAC of the text "orderId|paymentId";
\* a constant or a signature with one character changed gives false, and so
\* does the signature of every pair of ids whose text differs.  Two pairs
\* with the same text (ids that contain the separator) share a signature.
C12_TrueIffSignatureOfText ==
  IsVerifySignature =>
     LET o == Get(req.body, "orderId")
         p == Get(req.body, "paymentId")
         g == Get(req.body, "signature")
     IN /\ res = B(g = SignatureOf(o, p))
        /\ g \in {U, S("0000"), S(LastCharChanged(SignatureOf(o, p).v))}
             => res = B(FALSE)
        /\ \A o2 \in OrderIds, p2 \in PaymentIds :
             (SignedText(o2, p2) # SignedText(o, p) /\ g = SignatureOf(o2, p2))
               => res = B(FALSE)

\* A pair with its own signature was accepted.
C12_Witness ==
  /\ IsVerifySignature
  /\ Get(req.body, "orderId") = S("order_1")
  /\ Get(req.body, "paymentId") = S("pay_1")
  /\ Get(req.body, "signature") = SignatureOf(S("order_1"), S("pay_1"))
  /\ res = B(TRUE)

\* The X-VERIFY value of a request body: the hex SHA-256 of the body
\* followed by the salt key, "###", the salt index.
XVerifyOf(requestBody) ==
  S("sha256(" \o ToStr(requestBody) \o "SALT1" \o ")###" \o "1")

\* C13: generatePhonePeSignature is a function of the payload, the salt key
\* and the salt index: every evaluation yields "{SHA256(payload+saltKey)
\* hex}###{saltIndex}", a second evaluation on the same payload yields the
\* same string, and verifyPhonePeSignature(body, h) is true iff h is that
\* string for body.
C13_SignatureIsAFunction ==
  /\ [](req.handler = "generatePhonePeSignature" => res = XVerifyOf(req.body))
  /\ [](req.handler = "verifyPhonePeSignature" =>
          res = B(req.xVerify = XVerifyOf(req.body)))
  /\ [][(/\ req.handler = "generatePhonePeSignature"
          /\ req'.handler = "generatePhonePeSignature"
          /\ req'.body = req.body) => res' = res]_vars

\* A body was verified against its own signature.
C13_Witness ==
  /\ req.handler = "verifyPhonePeSignature"
  /\ req.body = S("{\"data\":{}}")
  /\ req.xVerify = XVerifyOf(req.body)
  /\ res = B(TRUE)

(***************************************************************************)
(* Properties of the adapter operations (checked under SpecOps).           *)
(***************************************************************************)
TheCall == calls["c1"]

\* The operation has sent its request to the payment endpoint.
RequestSent == TheCall.apiCalls > 0

C15_NoRetry ==
  [][LET a == calls["c1"]
         b == [calls'["c1"] EXCEPT !.cleared = calls["c1"].cleared]
     IN /\ b.apiCalls <= 1
        /\ b.fetches <= 1
        /\ b.op \in DirectOps => b.fetches = 0
        /\ (a.pc = "awaitToken" /\ b # a) =>
             /\ b.pc \in {"gotToken", "failed"}
             /\ b.fetches = a.fetches /\ b.apiCalls = 0
        /\ (a.pc = "awaitApi" /\ b # a) =>
             /\ b.pc \in {"done", "failed"}
             /\ b.fetches = a.fetches /\ b.apiCalls = a.apiCalls
        /\ (a.pc = "failed" /\ b # a) => b = IdleCall
        /\ b.pc = "failed" => b.result.t = "object"]_vars

\* createRazorpayOrder threw after its one request failed.
C15_Witness ==
  /\ TheCall.op = "createRazorpayOrder"
  /\ TheCall.pc = "failed"
  /\ TheCall.apiCalls = 1
  /\ Get(TheCall.result, "message") = S("Failed to create Razorpay order")

(***************************************************************************)
(* Properties of the webhook routes (checked under SpecWebhook).           *)
(***************************************************************************)
IsRazorpayRoute == req.handler = "POST /api/webhook/razorpay"

IsCashfreeRoute == req.handler = "POST /api/webhook/cashfree"

IsRoute == IsRazorpayRoute \/ IsCashfreeRoute \/ IsPhonePeRoute

\* The route called the handler and the handler threw.
HandlerThrew == IsRoute /\ IsThrown(res)

\* An entry of the given level was logged before the response was sent.
LoggedBeforeResponse(level) ==
  \E i, j \in 1..Len(log) : i < j /\ log[i][1] = level /\ log[j][1] = "sent"

\* C16: on the razorpay, phonepe and cashfree webhook endpoints, when the
\* handler throws the response is a 200 whose body has success false, and
\* an error entry was logged before the response was sent.
C16_HandlerErrorAbsorbedAndLogged ==
  HandlerThrew =>
     /\ http.status = 200
     /\ Get(http.body, "success") = B(FALSE)
     /\ LoggedBeforeResponse("error")

\* The Razorpay handler threw on a signed event without its entity, and the
\* endpoint answered 200 with success false.
C16_Witness ==
  /\ IsRazorpayRoute
  /\ SignatureMatches
  /\ IsThrown(res)
  /\ http.status = 200
  /\ Get(http.body, "success") = B(FALSE)
  /\ LoggedBeforeResponse("error")

\* C17: on the Razorpay and Cashfree endpoints, whenever the handler
\* returns valid:false the response is a 400 carrying the handler's message,
\* and a 200 with success:true is sent only when the handler returned
\* valid:true.
C17_InvalidIsRejected ==
  (IsRazorpayRoute \/ IsCashfreeRoute) =>
     /\ (res.t = "object" /\ Get(res, "valid") = B(FALSE)) =>
          /\ http.status = 400
          /\ http.body = O(<< <<"error", Get(res, "message")>> >>)
     /\ (http.status = 200 /\ Get(http.body, "success") = B(TRUE)) =>
          /\ res.t = "object"
          /\ Get(res, "valid") = B(TRUE)
          /\ Get(http.body, "data") = res

\* A Razorpay webhook with a wrong signature was answered 400 'Invalid
\* signature'.
C17_Witness ==
  /\ IsRazorpayRoute
  /\ req.signature = S("0000")
  /\ res = InvalidSignature
  /\ http.status = 400
  /\ http.body = O(<< <<"error", S("Invalid signature")>> >>)

(***************************************************************************)
(* Properties of webhook calls among token fetches (SpecFrame).            *)
(***************************************************************************)
\* The step is a call of one of the three webhook handlers.
WebhookCallStep ==
  /\ req = NoRequest
  /\ req'.handler \in {"handleRazorpayWebhook", "handlePhonePeWebhook"}

\* What the handler of the request in req answers to it.
HandlerAnswer ==
  IF IsRazorpay THEN handleRazorpayWebhook(req.body, req.signature)
  ELSE IF IsSalt THEN handlePhonePeWebhookSalt(req.body, req.xVerify, req.auth)
  ELSE handlePhonePeWebhookOAuth(req.body)

\* C18: a webhook call leaves the token cache, the response it was written
\* from, the clock, the credentials and the operations in flight as they
\* are, and its result is what the handler answers to the request alone,
\* whatever the token cache holds and whatever token fetches run before,
\* during or after it.
C18_WebhooksShareNoState ==
  /\ [][WebhookCallStep => UNCHANGED tokenVars]_vars
  /\ []((IsRazorpay \/ IsSalt \/ IsOAuth) => res = HandlerAnswer)

\* A webhook was handled while a token fetch was in flight and another
\* token was in the cache.
C18_Witness ==
  /\ IsOAuth
  /\ Get(res, "processed") = B(TRUE)
  /\ calls["c1"].pc = "awaitToken"
  /\ tokenCache.accessToken # N

(***************************************************************************)
(* Further properties of the token cache (SpecToken).                      *)
(***************************************************************************)
\* C19: when the client id or the client secret is not configured and no
\* valid token is cached, the operation that needs a token fails with
\* 'Failed to authenticate with PhonePe' at once: no token fetch and no
\* request is issued and the cache is left as it is.  The failed call
\* returns to its caller, and the caller can call again.
C19_MissingCredentialsFailTheCall ==
  /\ [][\A c \in Callers :
          (Starts(c) /\ ~credsSet /\ ~TokenUsable) =>
             /\ calls'[c].pc = "failed"
             /\ calls'[c].err = "Failed to authenticate with PhonePe"
             /\ Get(calls'[c].result, "error") = S("Failed to authenticate with PhonePe")
             /\ calls'[c].fetches = 0
             /\ calls'[c].apiCalls = 0
             /\ tokenCache' = tokenCache
             /\ stored' = stored]_vars
  /\ [](\A c \in Callers :
          /\ calls[c].pc = "failed" => ENABLED Return(c)
          /\ calls[c].pc = "idle" =>
               ENABLED StartCall(c, "checkPhonePeTransactionStatus", SomeAmount))

\* Without credentials a call failed while the other caller was idle.
C19_Witness ==
  /\ ~credsSet
  /\ calls["c1"].pc = "failed"
  /\ calls["c1"].err = "Failed to authenticate with PhonePe"
  /\ calls["c1"].fetches = 0
  /\ calls["c2"].pc = "idle"

(***************************************************************************)
(* Further properties of the adapter operations (SpecOps).                 *)
(***************************************************************************)
\* The request of the call has been answered.
Answered == TheCall.answer # U

\* The endpoint answered with a failure: the call was rejected, or it
\* resolved with an envelope whose success is false.
UpstreamFailed ==
  /\ Answered
  /\ \/ ~TheCall.answer.ok
     \/ Get(TheCall.answer.value, "success") = B(FALSE)

\* The messages an answer of the endpoint carries: that of the error the
\* call was rejected with, that of the response body, that of the envelope.
UpstreamMessages ==
  {OptGet(TheCall.answer.value, "message"),
   OptGet(OptGet(OptGet(TheCall.answer.value, "response"), "data"), "message"),
   OptGet(OptGet(TheCall.answer.value, "error"), "description")} \ {U}

\* C20 as claimed: whenever the request of createRazorpayOrder, of either
\* createPhonePeOrder or of the OAuth status check or refund fails or is
\* answered with a failure envelope, the operation throws an object whose
\* error field carries the message of the endpoint.
C20_UpstreamMessagePreserved ==
  (TheCall.op \in WrappingOps /\ UpstreamFailed) =>
     /\ TheCall.pc = "failed"
     /\ Get(TheCall.result, "error") \in UpstreamMessages

\* C20 as amended: when the request is rejected the operation throws
\* { message, error } with its own fixed message and, as error, the message
\* property of what the request was rejected with (undefined when that has
\* none); the body of the endpoint's response is not in it.  An envelope
\* that arrives in a 2xx response is not thrown, success false or not: the
\* OAuth operations return it as it is and the salt-based createPhonePeOrder
\* returns status 'FAILED' for it.
C20_RejectionMessageWrapped ==
  (TheCall.op \in WrappingOps /\ Answered) =>
     IF TheCall.answer.ok
     THEN /\ TheCall.pc = "done"
          /\ TheCall.op \in Ops => TheCall.result = TheCall.answer.value
          /\ TheCall.op = "createPhonePeOrderSalt" =>
               Get(TheCall.result, "status") =
                 (IF Truthy(OptGet(TheCall.answer.value, "success"))
                  THEN S("INITIATED") ELSE S("FAILED"))
     ELSE /\ TheCall.pc = "failed"
          /\ TheCall.result =
               O(<< <<"message",
                     S(CASE TheCall.op = "createRazorpayOrder" ->
                              "Failed to create Razorpay order"
                         [] TheCall.op = "checkPhonePeTransactionStatus" ->
                              "Failed to check PhonePe transaction status"
                         [] TheCall.op = "refundPhonePePayment" ->
                              "Failed to refund PhonePe payment"
                         [] OTHER -> "Failed to create PhonePe order")>>,
                    <<"error", Get(TheCall.answer.value, "message")>> >>)

\* The OAuth createPhonePeOrder threw with the message of a rejected
\* request.
C20_Witness ==
  /\ TheCall.op = "createPhonePeOrder"
  /\ TheCall.pc = "failed"
  /\ Answered
  /\ TheCall.result =
       O(<< <<"message", S("Failed to create PhonePe order")>>,
            <<"error", S("Request failed with status code 400")>> >>)

\* The call is one of the salt-based createPhonePeOrder.
IsSaltOrder == TheCall.op = "createPhonePeOrderSalt"

\* C21: the salt-based createPhonePeOrder builds its transaction id as
\* "TXN_{merchantId}_{epochMillis}" from the time it starts; when it returns,
\* its status is 'INITIATED' iff the success of the response is truthy and
\* 'FAILED' otherwise, and its transactionId is the id it built, the one in
\* the payload it signed and at the end of the redirect URL of that payload.
C21_StatusAndTransactionId ==
  /\ [][\A amount \in Amounts :
          StartDirectCall("c1", "createPhonePeOrderSalt", amount) =>
            calls'["c1"].txn = S("TXN_M1_" \o ToString(now))]_vars
  /\ []((IsSaltOrder /\ TheCall.pc = "done") =>
          LET success == OptGet(TheCall.answer.value, "success")
              falsy == success \in {U, N, NaN, B(FALSE), S(""), Num(0)}
              id == Get(TheCall.result, "transactionId")
          IN /\ Get(TheCall.result, "status") \in {S("INITIATED"), S("FAILED")}
             /\ Get(TheCall.result, "status") = S("INITIATED") <=> ~falsy
             /\ id = TheCall.txn
             /\ id = Get(TheCall.payload, "merchantTransactionId")
             /\ Get(TheCall.payload, "redirectUrl") =
                  S("https://shop/payment-status?transactionId=" \o id.v))

\* The order was created at one time and answered at a later one, with a
\* success that is a text.
C21_Witness ==
  /\ IsSaltOrder
  /\ TheCall.pc = "done"
  /\ now > 0
  /\ TheCall.txn = S("TXN_M1_0")
  /\ OptGet(TheCall.answer.value, "success") = S("true")
  /\ Get(TheCall.result, "status") = S("INITIATED")

(***************************************************************************)
(* The token cache among concurrent calls (SpecToken).                     *)
(***************************************************************************)
\* The caller's fetch is answered with a token in this step.
FetchSucceeds(c) == calls[c].pc = "awaitToken" /\ calls'[c].pc = "gotToken"

\* C22: whatever the interleaving of the calls and of clearTokenCache, the
\* cache is (null, null) or holds the token of one answered fetch together
\* with the expiry computed from the expires_in of that same answer at the
\* time it arrived; the cache changes only by being cleared or by one fetch
\* storing both of its fields.
C22_CachePairFromOneFetch ==
  /\ [](\/ tokenCache = EmptyCache
        \/ /\ stored.access_token \in AccessTokens
           /\ tokenCache.accessToken = stored.access_token
           /\ tokenCache.expiresAt =
                (IF stored.expires_in.t = "number"
                 THEN Num(stored.at + (stored.expires_in.v - 60) * 1000)
                 ELSE NaN))
  /\ [][tokenCache' # tokenCache =>
          \/ tokenCache' = EmptyCache
          \/ \E c \in Callers :
               /\ FetchSucceeds(c)
               /\ calls'[c].tok = tokenCache'.accessToken
               /\ stored'.access_token = calls'[c].tok
               /\ stored'.at = now]_vars

\* Two fetches that were in flight together were answered with different
\* tokens at different times; the cache holds the pair of the later one.
C22_Witness ==
  /\ \A c \in Callers : calls[c].pc = "gotToken" /\ calls[c].fetches = 1
  /\ calls["c1"].tok = S("tokA")
  /\ calls["c2"].tok = S("tokB")
  /\ tokenCache = [accessToken |-> S("tokB"), expiresAt |-> Num(now + 60000)]
  /\ now > 0

\* The caller's fetch fails in this step: the request was rejected, or its
\* answer carries no access_token.
FetchFails(c) == calls[c].pc = "awaitToken" /\ calls'[c].pc = "failed"

\* C23: a token fetch that fails leaves the cache as it was, and the failure
\* is not remembered: a call that starts after it without a usable token in
\* the cache issues a fetch of its own.
C23_FailedFetchLeavesCache ==
  [][\A c \in Callers :
       /\ FetchFails(c) =>
            /\ tokenCache' = tokenCache
            /\ stored' = stored
            /\ calls'[c].err = "Failed to authenticate with PhonePe"
       /\ (Starts(c) /\ ~TokenUsable /\ credsSet) =>
            /\ calls'[c].pc = "awaitToken"
            /\ calls'[c].fetches = 1]_vars

\* One caller's fetch failed while a token fetched meanwhile by the other
\* caller stays cached.
C23_Witness ==
  /\ calls["c1"].pc = "failed"
  /\ calls["c1"].fetches = 1
  /\ calls["c2"].pc = "gotToken"
  /\ calls["c2"].fetches = 1
  /\ tokenCache.accessToken = calls["c2"].tok
  /\ TokenUsable

\* The call that starts in this step returns the cached token.
ReturnsCached(c) == Starts(c) /\ calls'[c].pc = "gotToken"

\* C24 as claimed: once clearTokenCache has run, no call that starts
\* afterwards gets from the cache a token of a fetch that was started before
\* the clear, a fetch that was in flight when the clear ran included.
C24_NoTokenFromBeforeClear ==
  [][\A c \in Callers : ReturnsCached(c) => ~stored.stale]_vars

\* The caller's request goes to the payment endpoint in this step.
CallsEndpoint(c) == calls'[c].apiCalls > calls[c].apiCalls

\* C25: createPhonePeOrder, checkPhonePeTransactionStatus and
\* refundPhonePePayment of the OAuth adapter call the payment endpoint only
\* after getAccessToken has given them a token, from the cache or from their
\* own fetch, and send "Bearer " followed by that token; when getAccessToken
\* fails, the operation throws and has not called the payment endpoint.
C25_TokenBeforeEndpoint ==
  /\ [][\A c \in Callers :
          /\ (calls[c].op \in Ops /\ CallsEndpoint(c)) =>
               /\ calls[c].pc = "gotToken"
               /\ calls[c].tok \in AccessTokens
               /\ calls'[c].tok = calls[c].tok
               /\ calls'[c].authorization = S("Bearer " \o calls[c].tok.v)
          /\ (Starts(c) /\ calls'[c].pc = "gotToken") =>
               calls'[c].tok = tokenCache.accessToken
          /\ FetchSucceeds(c) => calls'[c].tok = stored'.access_token
          /\ (Starts(c) /\ calls'[c].op \in Ops) => calls'[c].apiCalls = 0]_vars
  /\ [](\A c \in Callers :
          (calls[c].op \in Ops /\ calls[c].err = "Failed to authenticate with PhonePe") =>
             /\ calls[c].pc = "failed"
             /\ calls[c].apiCalls = 0
             /\ calls[c].authorization = U
             /\ HasKey(calls[c].result, "message"))

\* A call is at the payment endpoint with the token it was given while the
\* cache holds another one by now.
C25_Witness ==
  /\ calls["c1"].pc = "awaitApi"
  /\ calls["c1"].authorization = S("Bearer tokA")
  /\ tokenCache.accessToken = S("tokB")

(***************************************************************************)
(* Generated identifiers (SpecIds).                                        *)
(***************************************************************************)
\* C26 as claimed: two invocations of the salt-based createPhonePeOrder,
\* concurrent ones included, have different transaction ids, and two
\* invocations of refundPhonePePayment have different refund ids.
C26_IdsUnique ==
  \A c, d \in Callers :
    c # d =>
      /\ calls[c].txn # U => calls[c].txn # calls[d].txn
      /\ calls[c].refundId # U => calls[c].refundId # calls[d].refundId

(***************************************************************************)
(* Further properties of the webhook routes (SpecWebhook).                 *)
(***************************************************************************)
\* How many entries of the log of the request have the given level.
LogCount(level) == Cardinality({i \in 1..Len(log) : log[i][1] = level})

\* How often the Razorpay handler was entered for the request: it logs
\* 'Handling Razorpay webhook' first.
HandlerEntries ==
  Cardinality({i \in 1..Len(log) : log[i] = <<"info", "Handling Razorpay webhook">>})

\* C27: on the Razorpay and Cashfree endpoints a request without a
\* signature header is answered 400 'Missing signature' and the handler is
\* not invoked for it; for every request the handler is invoked at most
\* once and exactly one response is sent.
C27_MissingSignatureRejected ==
  (IsRazorpayRoute \/ IsCashfreeRoute) =>
     /\ req.signature = U =>
          /\ http = [status |-> 400,
                     body |-> O(<< <<"error", S("Missing signature")>> >>)]
          /\ res = U
          /\ HandlerEntries = 0
          /\ reads \subseteq {"event", "type"}
          /\ LogCount("error") = 0
     /\ HandlerEntries <= 1
     /\ IsRazorpayRoute => (HandlerEntries = 1 <=> res # U)
     /\ http # U
     /\ LogCount("sent") = 1
     /\ log[Len(log)] = <<"sent", ToString(http.status)>>

\* A Razorpay event without a signature header was answered 400 'Missing
\* signature'.
C27_Witness ==
  /\ IsRazorpayRoute
  /\ Get(req.body, "event") = S("payment.captured")
  /\ req.signature = U
  /\ http.status = 400
  /\ Get(http.body, "error") = S("Missing signature")
  /\ res = U

\* The PhonePe handler did not process the webhook: it threw, or returned
\* processed false or valid false.
NotProcessedByHandler ==
  \/ IsThrown(res)
  \/ /\ res.t = "object"
     /\ \/ OptGet(res, "processed") = B(FALSE)
        \/ OptGet(res, "valid") = B(FALSE)

\* C28 as claimed: POST /api/webhook/phonepe answers every request with
\* exactly one response, of status 200, and the success of that response is
\* false whenever the handler threw or returned processed false or valid
\* false.
C28_PhonePeRouteAlways200 ==
  IsPhonePeRoute =>
     /\ http # U
     /\ http.status = 200
     /\ LogCount("sent") = 1
     /\ NotProcessedByHandler => Get(http.body, "success") = B(FALSE)

(***************************************************************************)
(* Further properties of the validators (SpecCalls).                       *)
(***************************************************************************)
\* C29 as claimed: validateGateway returns an object with a boolean valid
\* for every value, missing, empty, not a string or a string in any letter
\* case, without throwing, and the values it accepts are exactly the names
\* 'razorpay', 'phonepe' and 'cashfree'.
C29_TotalAndExactName ==
  IsValidateGateway =>
     /\ ~IsThrown(res)
     /\ res.t = "object"
     /\ OptGet(res, "valid") \in {B(TRUE), B(FALSE)}
     /\ OptGet(res, "valid") = B(FALSE) => OptGet(res, "error").t = "string"
     /\ OptGet(res, "valid") = B(TRUE) =>
          req.body \in {S("razorpay"), S("phonepe"), S("cashfree")}

=============================================================================
